---- MODULE Spec2Model ----
(***************************************************************************)
(* The queue-based Gopher crawler of gopher_client_08.py (main and its     *)
(* helpers) as a state machine.                                            *)
(*                                                                         *)
(* Strings are sequences of one-character strings, so that strip(),        *)
(* lower(), endswith() and len() are computed rather than assumed.         *)
(* The server is the environment: what it answers to a request (failure,   *)
(* a menu, a file) is chosen when the request is sent.  One step of the    *)
(* model is one iteration of the while loop of main, the for loop over the *)
(* menu included.                                                          *)
(*                                                                         *)
(* parse_gopher_menu, is_text_file and send_gopher_request are also run on *)
(* their own, on bytes: ParserSpec (a menu the server wrote is decoded,    *)
(* split and parsed line by line, then handed to main), ClassifierSpec     *)
(* (one return per branch) and TransportSpec (the receive loop against a   *)
(* peer that sends, pauses, closes or resets as it likes, and main's       *)
(* handling of what the call returned).                                    *)
(*                                                                         *)
(* RepeatSpec runs main twice, one run after the other, on a site: a       *)
(* server whose answer to each selector is fixed, while the time a request *)
(* takes is not.                                                           *)
(*                                                                         *)
(* The earlier drafts are run on their own as well: RecursiveSpec is the   *)
(* recursive crawl of gopher_client.py, ClassSpec the GopherClient class   *)
(* of gopher_client_03.py and gopher_client_04.py.  A step of these is one *)
(* line of a menu, the requests it leads to included.                      *)
(***************************************************************************)
EXTENDS Integers, Sequences, FiniteSets, TLC

\* ------------------------------------------------------------- bounds

\* Largest number of well-formed entries in one menu response put together
\* from a repertoire.
MaxMenuLen == 2

\* Largest number of lines in a menu given to parse_gopher_menu on its own.
MaxLines == 2

\* Largest number of bytes after the first bytes of a payload given to
\* is_text_file on its own.
MaxTail == 3

\* max_queue_size and max_items are 1000 and 5000 in the source
\* (gopher_client_08.py lines 258-259); the model runs them scaled down.
max_queue_size == 2
max_items == 5

\* max_data_size and the size of a recv are 10 MiB and 4096 bytes in the
\* source (lines 7 and 44); the model runs them scaled down.
max_data_size == 4
recv_size == 2

\* ---------------------------------------------------- program constants

\* timeout and max_time of send_gopher_request, in seconds (line 7).
timeout == 10
max_time == 30
\* sample_size of is_text_file (line 148).
sample_size == 4096
\* len(item_selector) > 255 is skipped (line 322).
MaxSelectorLen == 255
\* Default Gopher port of main (line 236).
RootPort == 70

\* ------------------------------------------------------------- strings

\* str.lower() on the characters the model uses.
Lower(c) ==
    CASE c = "H" -> "h"
      [] c = "X" -> "x"
      [] c = "A" -> "a"
      [] OTHER -> c

LowerStr(s) == [i \in 1..Len(s) |-> Lower(s[i])]

IsSpace(c) == c \in {" ", "\t", "\r", "\n"}

RECURSIVE LStrip(_)
LStrip(s) == IF s # <<>> /\ IsSpace(Head(s)) THEN LStrip(Tail(s)) ELSE s

RECURSIVE RStrip(_)
RStrip(s) ==
    IF s # <<>> /\ IsSpace(s[Len(s)]) THEN RStrip(SubSeq(s, 1, Len(s) - 1)) ELSE s

\* str.strip()
Strip(s) == RStrip(LStrip(s))

\* str.endswith('/')
EndsWithSlash(s) == s # <<>> /\ s[Len(s)] = "/"

\* x in list, for the Python lists directories, text_files, binary_files
InList(x, l) == \E i \in 1..Len(l) : l[i] = x

\* ---------------------------------------------------------- the inputs

\* The root selector "" (line 255).
RootSelector == <<>>

\* A selector of 256 characters: longer than line 322 accepts.
LongSelector == [i \in 1..(MaxSelectorLen + 1) |-> "a"]

\* A selector that ends in '/' (line 306).
SlashSelector == <<"d", "/">>

\* The host of main (line 235), a one-letter stand-in for "comp3310.ddns.net".
\* A selector with one of the problem_keywords of line 216, in mixed case.
KeywordSelector == <<"t", "A", "r", "p", "i", "t">>

RootHost == <<"h">>

\* The root's host in capitals with a trailing blank; another host.
RootHostSpelled == <<"H", " ">>
OtherHost == <<"x">>

\* An item as parse_gopher_menu returns it (lines 129-135); display is never
\* read by main and is left out.
Entry(type, selector, host, port) ==
    [type |-> type, selector |-> selector, host |-> host, port |-> port]

\* The entries a server builds its menus from.  A crawl meets one of these
\* repertoires:
\*   1  a link back to the root, and one selector listed as directory and text;
\*   2  one selector listed as text and as binary, and an info line;
\*   3  the root's host spelled differently, another host, another port;
\*   4  error lines on the root's server and on another one;
\*   5  over-long selectors, and an info line naming another server;
\*   6  a selector ending in '/' listed as directory and as text;
\*   7  two files, one of them listed as a directory;
\*   8  a file whose selector has a problem keyword, on a server whose
\*      responses come in the sizes and durations is_problematic_resource
\*      tells apart;
\*   9  three directories, listed in the menus of LinkedMenus alone.
Repertoires ==
    << { Entry("1", RootSelector, RootHost, RootPort),
         Entry("1", <<"a">>, RootHost, RootPort),
         Entry("0", <<"a">>, RootHost, RootPort) },
       { Entry("0", <<"a">>, RootHost, RootPort),
         Entry("9", <<"a">>, RootHost, RootPort),
         Entry("i", <<"a">>, RootHost, RootPort) },
       { Entry("1", <<"a">>, RootHostSpelled, RootPort),
         Entry("1", <<"a">>, OtherHost, RootPort),
         Entry("0", <<"b">>, RootHost, RootPort + 1) },
       { Entry("3", <<"a">>, RootHost, RootPort),
         Entry("3", <<"b">>, OtherHost, RootPort),
         Entry("1", <<"a">>, RootHost, RootPort) },
       { Entry("1", LongSelector, RootHost, RootPort),
         Entry("1", LongSelector, OtherHost, RootPort),
         Entry("i", <<"b">>, OtherHost, RootPort + 1) },
       { Entry("1", SlashSelector, RootHost, RootPort),
         Entry("0", SlashSelector, RootHost, RootPort),
         Entry("i", <<"a">>, RootHost, RootPort) },
       { Entry("1", <<"a">>, RootHost, RootPort),
         Entry("0", <<"b">>, RootHost, RootPort) },
       { Entry("0", KeywordSelector, RootHost, RootPort) },
       { Entry("1", <<"a">>, RootHost, RootPort),
         Entry("1", <<"b">>, RootHost, RootPort),
         Entry("1", <<"c">>, RootHost, RootPort) } >>

\* The menus of at most n entries over a repertoire.
RECURSIVE MenusOver(_, _)
MenusOver(entries, n) ==
    IF n = 0 THEN {<<>>}
    ELSE MenusOver(entries, n - 1)
         \cup { Append(m, e) : m \in { x \in MenusOver(entries, n - 1) : Len(x) = n - 1 },
                               e \in entries }

\* The repertoire of the three directories, and the menus its server answers
\* with: a twice and c, a and c, b alone, c alone, none.
LinkedRepertoire == 9

LinkedMenus ==
    LET link(selector) == Entry("1", selector, RootHost, RootPort)
    IN  { <<link(<<"a">>), link(<<"a">>), link(<<"c">>)>>,
          <<link(<<"a">>), link(<<"c">>)>>, <<link(<<"b">>)>>, <<link(<<"c">>)>>,
          <<>> }

\* The menus a server of each repertoire can answer with.
Menus ==
    [r \in DOMAIN Repertoires |->
        IF r = LinkedRepertoire THEN LinkedMenus
        ELSE MenusOver(Repertoires[r], MaxMenuLen)]

\* len(response) of a non-empty response.
Sizes == {10, 100}

\* request_duration, in seconds.
Durations == {1, 26}

\* The repertoire whose server answers in the sizes and durations on either
\* side of the thresholds of is_problematic_resource (lines 223, 227).
ThresholdRepertoire == 8

\* len(response) of a file, and of a menu (which only line 296 looks at).
FileSizes(r) ==
    IF r = ThresholdRepertoire THEN {100, 1024 * 1024, 1024 * 1024 + 1} ELSE Sizes

MenuSizes(r) ==
    IF r = ThresholdRepertoire THEN {100, 1024 * 1024 + 1} ELSE {100}

DurationsOf(r) ==
    IF r = ThresholdRepertoire THEN {1, 15, 16, 24, 25}
    ELSE IF r = LinkedRepertoire THEN {1}
    ELSE Durations

\* Why send_gopher_request returned b"": the connection failed (lines 70-78) or
\* the reply was empty.
FailureKinds == {"connect_error", "empty_response"}

\* ----------------------------------------------------------- the state

VARIABLES
    repertoire,            \* environment: which repertoire the server's menus use
    pc,                    \* "loop" or "done"
    selectors_to_visit,    \* the frontier (line 255)
    processed_count,       \* line 260
    visited_selectors,     \* line 239
    directories,           \* line 242
    text_files,            \* line 243
    binary_files,          \* line 244
    invalid_references,    \* line 245
    external_servers,      \* line 246
    problematic_resources, \* line 247
    text_file_contents,    \* line 250 (selector -> length of the kept bytes)
    file_sizes,            \* line 251
    download_times,        \* line 252
    current,               \* selector, current_host, current_port (line 269)
    menu_items,            \* line 303
    main_outcome,          \* how main ended: "running", "returned", "raised"
    request_count,         \* history: send_gopher_request calls per selector
    request_result,        \* history: what the request for a selector returned:
                           \* a FailureKind, "ok" (bytes taken for a menu),
                           \* "text_bytes" or "binary_bytes" (bytes taken for
                           \* a file, named by what is_text_file answers)
    probe_count,           \* history: check_external_server calls per key
    fetched,               \* history: the selectors requested, in that order
    response_size,         \* history: len(response) of the request per selector
    discovered,            \* history: the menu depth at which a selector was
                           \* first put on the frontier (the root: 0)
    listed,                \* history: the selectors of the entries a fetched
                           \* menu gave that main is to fetch
    ever_truncated,        \* history: lines 265-267 have cut the frontier
    summary,               \* what the summary reports as smallest and largest
                           \* files (lines 416-434); <<>> before it is made
    sent,                  \* environment: the lines the server writes as a menu
    response,              \* the bytes parse_gopher_menu is called with
    lines,                 \* the lines still to be looked at (line 102)
    items,                 \* line 93
    parse_pc,              \* "idle", "call", "loop", "returned", "processed"
    data,                  \* the bytes is_text_file is called with
    answer,                \* what is_text_file returns
    classify_pc,           \* "idle", "call", "returned"
    transport_pc,          \* "idle", "connect", "check", "recv", "returned",
                           \* "raised", "handled"
    received,              \* len(data) in send_gopher_request (line 27)
    returned,              \* len of the bytes send_gopher_request returned
    last_byte_at,          \* history: when the peer's last bytes arrived
    clock,                 \* time.time(), in seconds
    start_time,            \* line 28
    current_time,          \* line 38
    last_progress_time,    \* line 29
    left_by,               \* how send_gopher_request left its loop
    client,                \* gopher_client.py: the fields of the GopherClient
    stack,                 \* gopher_client.py: the calls of crawl under way,
                           \* the innermost last
    requests_sent,         \* history: the requests sent per selector
    draft_pc,              \* "idle", "crawl", "done", "raised"
    draft,                 \* which class draft runs: 3, 4, or 0 for none
    crawler,               \* class drafts: the fields of the GopherClient
    calls,                 \* class drafts: the calls of process_directory
                           \* under way, the innermost last
    class_pc,              \* "idle", "crawl", "done", "raised"
    last_reply,            \* history: the last request of a class draft, how
                           \* the server answered it, what send_request did
    looked_binary,         \* history: the paths process_text_file requested
                           \* and is_binary_content said True of
    site,                  \* environment of two runs: what the server answers
                           \* to each selector, which other servers are up
    first                  \* history: the Outcome of the first of two runs;
                           \* <<>> until it is over

vars == <<repertoire, pc, selectors_to_visit, processed_count, visited_selectors,
          directories, text_files, binary_files, invalid_references,
          external_servers, problematic_resources, text_file_contents, file_sizes,
          download_times, current, menu_items, main_outcome, request_count,
          request_result, probe_count, fetched, response_size, discovered,
          listed, ever_truncated, summary>>

\* The variables of parse_gopher_menu.
parser_vars == <<sent, response, lines, items, parse_pc>>

\* The variables of is_text_file.
classifier_vars == <<data, answer, classify_pc>>

\* The variables of send_gopher_request.
transport_vars == <<transport_pc, received, returned, clock, start_time,
                    current_time, last_progress_time, last_byte_at, left_by>>

\* The variables of the recursive draft gopher_client.py.
recursive_vars == <<client, stack, requests_sent, draft_pc>>

\* The variables of the class drafts gopher_client_03.py and
\* gopher_client_04.py.
class_vars == <<draft, crawler, calls, class_pc, last_reply, looked_binary>>

\* The variables of the functions that are also run on their own, and of the
\* drafts.
aside == <<parser_vars, classifier_vars, transport_vars, recursive_vars,
           class_vars, site, first>>
not_parser == <<classifier_vars, transport_vars, recursive_vars, class_vars,
                site, first>>
not_classifier == <<parser_vars, transport_vars, recursive_vars, class_vars,
                    site, first>>
not_transport == <<parser_vars, classifier_vars, recursive_vars, class_vars,
                   site, first>>
not_recursive == <<parser_vars, classifier_vars, transport_vars, class_vars,
                   site, first>>
not_class == <<parser_vars, classifier_vars, transport_vars, recursive_vars,
               site, first>>
aside_of_repeat == <<parser_vars, classifier_vars, transport_vars,
                     recursive_vars, class_vars>>

\* The results of the crawl: what the summary is computed from.
results == <<directories, text_files, binary_files, invalid_references,
             external_servers, problematic_resources, text_file_contents,
             file_sizes>>

\* A dict as a function on the set of its keys.
EmptyDict == [k \in {} |-> 0]

Put(d, k, v) == [x \in DOMAIN d \cup {k} |-> IF x = k THEN v ELSE d[x]]

\* A history counter: the calls counted for k so far.
Count(d, k) == IF k \in DOMAIN d THEN d[k] ELSE 0

Item(selector, host, port) == [selector |-> selector, host |-> host, port |-> port]

\* parse_gopher_menu is not being run on its own.
ParserIdle ==
    /\ sent = <<>>
    /\ response = <<>>
    /\ lines = <<>>
    /\ items = <<>>
    /\ parse_pc = "idle"

\* is_text_file is not being run on its own.
ClassifierIdle ==
    /\ data = <<>>
    /\ answer = FALSE
    /\ classify_pc = "idle"

\* send_gopher_request is not being run on its own.
TransportIdle ==
    /\ transport_pc = "idle"
    /\ received = 0
    /\ returned = 0
    /\ last_byte_at = 0
    /\ clock = 0
    /\ start_time = 0
    /\ current_time = 0
    /\ last_progress_time = 0
    /\ left_by = "nothing"

\* The recursive draft is not being run.
RecursiveIdle ==
    /\ client = <<>>
    /\ stack = <<>>
    /\ requests_sent = EmptyDict
    /\ draft_pc = "idle"

\* No class draft is being run.
ClassIdle ==
    /\ draft = 0
    /\ crawler = <<>>
    /\ calls = <<>>
    /\ class_pc = "idle"
    /\ last_reply = <<>>
    /\ looked_binary = {}

\* None of the drafts is being run, and main is not run twice.
DraftsIdle ==
    /\ RecursiveIdle
    /\ ClassIdle
    /\ site = <<>>
    /\ first = <<>>

\* main before the first iteration of its loop (lines 235-260).
MainStart ==
    /\ pc = "loop"
    /\ selectors_to_visit = <<Item(RootSelector, RootHost, RootPort)>>
    /\ processed_count = 0
    /\ visited_selectors = {}
    /\ directories = <<>>
    /\ text_files = <<>>
    /\ binary_files = <<>>
    /\ invalid_references = {}
    /\ external_servers = EmptyDict
    /\ problematic_resources = {}
    /\ text_file_contents = EmptyDict
    /\ file_sizes = EmptyDict
    /\ download_times = EmptyDict
    /\ current = Item(RootSelector, RootHost, RootPort)
    /\ menu_items = <<>>
    /\ main_outcome = "running"
    /\ request_count = EmptyDict
    /\ request_result = EmptyDict
    /\ probe_count = EmptyDict
    /\ fetched = <<>>
    /\ response_size = EmptyDict
    /\ discovered = Put(EmptyDict, RootSelector, 0)
    /\ listed = {}
    /\ ever_truncated = FALSE
    /\ summary = <<>>

Init ==
    /\ repertoire \in DOMAIN Repertoires
    /\ MainStart
    /\ ParserIdle
    /\ ClassifierIdle
    /\ TransportIdle
    /\ DraftsIdle

\* ---------------------------------------------------------- the helpers

\* is_same_server comparing the hosts alone.
is_same_server_ignoring_port(host1, port1, host2, port2) ==
    LowerStr(Strip(host1)) = LowerStr(Strip(host2))

\* is_same_server (lines 140-145); every host here is a str.
is_same_server(host1, port1, host2, port2) ==
    LowerStr(Strip(host1)) = LowerStr(Strip(host2)) /\ port1 = port2

\* keyword in s: s has kw as a substring.
Contains(s, kw) ==
    \E i \in 1..(Len(s) - Len(kw) + 1) : SubSeq(s, i, i + Len(kw) - 1) = kw

\* problem_keywords (line 216)
problem_keywords ==
    { <<"f", "i", "r", "e", "h", "o", "s", "e">>,
      <<"t", "a", "r", "p", "i", "t">>,
      <<"g", "o", "d", "o", "t">> }

\* is_problematic_resource looking for the keywords in the selector as it is
\* spelled.
is_problematic_resource_as_spelled(selector, file_size, download_time) ==
    \/ \E keyword \in problem_keywords : Contains(selector, keyword)
    \/ file_size > 1024 * 1024 /\ download_time > 15
    \/ download_time >= 25

\* is_problematic_resource (lines 213-230)
is_problematic_resource(selector, file_size, download_time) ==
    \/ \E keyword \in problem_keywords : Contains(LowerStr(selector), keyword)
    \/ file_size > 1024 * 1024 /\ download_time > 15
    \/ download_time >= 25

\* The hosts check_external_server refuses before it connects (lines 195-202):
\* blank ones and ones with a character outside ' '..'~'.  The characters of
\* the model are all printable ASCII but the tab.
HostRefused(host) ==
    \/ Strip(host) = <<>>
    \/ \E i \in 1..Len(Strip(host)) : Strip(host)[i] = "\t"

\* check_external_server (lines 191-210): False for a refused host, else
\* whether the connection succeeds.  up says which of the other servers accept
\* one; the root's server, which is sending the menus, does.
check_external_server(host, port, up) ==
    IF HostRefused(host) THEN FALSE
    ELSE IF <<host, port>> \in DOMAIN up THEN up[<<host, port>>]
    ELSE TRUE

\* The (host, port) pairs other than (host, port) that the entries of a menu
\* name.
OtherServers(menu, host, port) ==
    { <<menu[i].host, menu[i].port>> : i \in 1..Len(menu) } \ {<<host, port>>}

\* ----------------------------------------------------------- main loop

\* The while condition with <= for <.
LoopConditionOffByOne ==
    selectors_to_visit # <<>> /\ processed_count <= max_items

\* The while condition (line 263).
LoopCondition ==
    selectors_to_visit # <<>> /\ processed_count < max_items

\* The safety check cutting the queue one entry shorter.
TruncatedShort(queue) ==
    IF Len(queue) > max_queue_size - 1
    THEN SubSeq(queue, 1, max_queue_size - 1) ELSE queue

\* The safety check for queue size (lines 265-267).
Truncated(queue) ==
    IF Len(queue) > max_queue_size THEN SubSeq(queue, 1, max_queue_size) ELSE queue

\* pop() for pop(0): the entry put on the frontier last is taken.
PopLast(queue) ==
    [item |-> queue[Len(queue)], rest |-> SubSeq(queue, 1, Len(queue) - 1)]

\* selectors_to_visit.pop(0) (line 269): the entry taken and the entries left.
PopFirst(queue) == [item |-> Head(queue), rest |-> Tail(queue)]

\* The visited check always answering no.
NeverVisited(selector) == FALSE

\* selector in visited_selectors (line 273)
AlreadyVisited(selector) == selector \in visited_selectors

\* The cache check always answering that the key is new.
AlwaysProbe(server_key, servers) == TRUE

\* server_key not in external_servers (line 329)
NotYetProbed(server_key, servers) == server_key \notin DOMAIN servers

\* What the for loop over menu_items changes.
LoopState ==
    [ selectors_to_visit |-> selectors_to_visit,
      text_files |-> text_files,
      binary_files |-> binary_files,
      invalid_references |-> invalid_references,
      external_servers |-> external_servers,
      probe_count |-> probe_count ]

\* The body of the for loop for one item (lines 316-346), on the connection to
\* (current_host, current_port).
ProcessItem(item, current_host, current_port, up, st) ==
    IF Len(item.selector) > MaxSelectorLen THEN st
    ELSE IF ~is_same_server(current_host, current_port, item.host, item.port)
    THEN IF NotYetProbed(<<item.host, item.port>>, st.external_servers)
         THEN [st EXCEPT
                  !.external_servers =
                      Put(@, <<item.host, item.port>>,
                          check_external_server(item.host, item.port, up)),
                  !.probe_count =
                      Put(@, <<item.host, item.port>>,
                          Count(@, <<item.host, item.port>>) + 1)]
         ELSE st
    ELSE IF item.type = "1"
    THEN [st EXCEPT
             !.selectors_to_visit =
                 Append(@, Item(item.selector, item.host, item.port))]
    ELSE IF item.type = "0"
    THEN IF ~InList(item.selector, st.text_files)
            /\ ~InList(item.selector, st.binary_files)
         THEN [st EXCEPT
                  !.text_files = Append(@, item.selector),
                  !.selectors_to_visit =
                      Append(@, Item(item.selector, item.host, item.port))]
         ELSE st
    ELSE IF item.type = "3"
    THEN [st EXCEPT !.invalid_references = @ \cup {item.selector}]
    ELSE IF item.type # "i"
    THEN IF ~InList(item.selector, st.binary_files)
            /\ ~InList(item.selector, st.text_files)
         THEN [st EXCEPT
                  !.binary_files = Append(@, item.selector),
                  !.selectors_to_visit =
                      Append(@, Item(item.selector, item.host, item.port))]
         ELSE st
    ELSE st

\* The for loop over menu_items (lines 315-346).
RECURSIVE ProcessItems(_, _, _, _, _)
ProcessItems(menu, current_host, current_port, up, st) ==
    IF menu = <<>> THEN st
    ELSE ProcessItems(Tail(menu), current_host, current_port, up,
                      ProcessItem(Head(menu), current_host, current_port, up, st))

\* selectors_to_visit.pop(0) after the truncation, and processed_count += 1
\* (lines 265-270).
Pop ==
    /\ pc = "loop"
    /\ LoopCondition
    /\ current' = PopFirst(Truncated(selectors_to_visit)).item
    /\ processed_count' = processed_count + 1
    /\ ever_truncated' =
           (ever_truncated \/ Len(selectors_to_visit) > max_queue_size)

\* The call of send_gopher_request and its bookkeeping (lines 276-289); size
\* is len(response).
Request(result, size, request_duration) ==
    /\ ~AlreadyVisited(current'.selector)
    /\ visited_selectors' = visited_selectors \cup {current'.selector}
    /\ download_times' = Put(download_times, current'.selector, request_duration)
    /\ request_count' =
           Put(request_count, current'.selector,
               Count(request_count, current'.selector) + 1)
    /\ request_result' = Put(request_result, current'.selector, result)
    /\ fetched' = Append(fetched, current'.selector)
    /\ response_size' = Put(response_size, current'.selector, size)

\* The visited check made on the head of the queue before it is popped and
\* counted: the iteration repeats.
SkipWithoutPop ==
    /\ pc = "loop"
    /\ LoopCondition
    /\ AlreadyVisited(PopFirst(Truncated(selectors_to_visit)).item.selector)
    /\ UNCHANGED vars

\* An iteration that pops a selector already visited (lines 263-274).
Skip ==
    /\ Pop
    /\ AlreadyVisited(current'.selector)
    /\ selectors_to_visit' = PopFirst(Truncated(selectors_to_visit)).rest
    /\ UNCHANGED <<repertoire, pc, visited_selectors, results, download_times,
                   menu_items, main_outcome, request_count, request_result,
                   probe_count, fetched, response_size, discovered, listed,
                   summary>>

\* A failed request that is not recorded as an invalid reference.
FetchFailedUnrecorded ==
    \E kind \in FailureKinds, request_duration \in DurationsOf(repertoire) :
        /\ Pop
        /\ Request(kind, 0, request_duration)
        /\ selectors_to_visit' = PopFirst(Truncated(selectors_to_visit)).rest
        /\ UNCHANGED <<repertoire, pc, results, menu_items, main_outcome,
                       probe_count, discovered, listed, summary>>

\* A failed request without the continue of line 293: the empty response is
\* classified like any other (no entry parses; is_text_file(b"") is False).
FetchFailedFallsThrough ==
    \E kind \in FailureKinds, request_duration \in DurationsOf(repertoire) :
        /\ Pop
        /\ Request(kind, 0, request_duration)
        /\ selectors_to_visit' = PopFirst(Truncated(selectors_to_visit)).rest
        /\ invalid_references' = invalid_references \cup {current'.selector}
        /\ menu_items' = <<>>
        /\ IF current'.selector = <<>> \/ EndsWithSlash(current'.selector)
           THEN /\ directories' =
                       IF InList(current'.selector, directories) THEN directories
                       ELSE Append(directories, current'.selector)
                /\ UNCHANGED <<binary_files, file_sizes>>
           ELSE /\ file_sizes' = Put(file_sizes, current'.selector, 0)
                /\ binary_files' =
                       IF ~InList(current'.selector, text_files)
                          /\ ~InList(current'.selector, binary_files)
                       THEN Append(binary_files, current'.selector)
                       ELSE binary_files
                /\ UNCHANGED directories
        /\ UNCHANGED <<repertoire, pc, text_files, external_servers,
                       problematic_resources, text_file_contents, main_outcome,
                       probe_count, discovered, listed, summary>>

\* An iteration whose request returns b"" (lines 263-293).
FailedIteration(kind, request_duration) ==
        /\ Pop
        /\ Request(kind, 0, request_duration)
        /\ selectors_to_visit' = PopFirst(Truncated(selectors_to_visit)).rest
        /\ invalid_references' = invalid_references \cup {current'.selector}
        /\ UNCHANGED <<repertoire, pc, directories, text_files, binary_files,
                       external_servers, problematic_resources, text_file_contents,
                       file_sizes, menu_items, main_outcome, probe_count,
                       discovered, listed, summary>>

\* A failed iteration on what the server of the repertoire does.
FetchFailed ==
    \E kind \in FailureKinds, request_duration \in DurationsOf(repertoire) :
        FailedIteration(kind, request_duration)

\* The directory decision looking at the parsed entries alone.
is_directory_by_entries_alone(parsed, selector) == parsed # <<>>

\* is_directory after lines 300-308, parsed being what parse_gopher_menu
\* returned for the response.
is_directory(parsed, selector) ==
    parsed # <<>> \/ selector = <<>> \/ EndsWithSlash(selector)

\* problematic_resources after lines 295-297.
Flagged(selector, size, request_duration) ==
    IF is_problematic_resource(selector, size, request_duration)
    THEN problematic_resources \cup {selector}
    ELSE problematic_resources

\* The selectors of the entries of a menu that main is to fetch, the menu
\* having come from (host, port): those of at most MaxSelectorLen characters,
\* on that server, of a type other than 'i' and '3' (lines 322, 326, 334-346).
ToFetch(menu, host, port) ==
    { menu[i].selector :
        i \in { j \in 1..Len(menu) :
                  /\ Len(menu[j].selector) <= MaxSelectorLen
                  /\ is_same_server(host, port, menu[j].host, menu[j].port)
                  /\ menu[j].type \notin {"i", "3"} } }

\* discovered after the entries of the menu under selector were processed,
\* queue being the frontier before and after: the selectors put on it for the
\* first time lie one level below selector.
Discovered(selector, before, after) ==
    LET new == { after[i].selector : i \in (Len(before) + 1)..Len(after) }
    IN  [s \in DOMAIN discovered \cup new |->
            IF s \in DOMAIN discovered THEN discovered[s]
            ELSE discovered[selector] + 1]

\* An iteration whose response is taken for a menu (lines 263-346): it parses
\* into the entries of menu, or into none under a selector that is empty or
\* ends in '/'.
MenuIteration(menu, size, request_duration, up) ==
        /\ Pop
        /\ Request("ok", size, request_duration)
        /\ is_directory(menu, current'.selector)
        /\ problematic_resources' = Flagged(current'.selector, size, request_duration)
        /\ menu_items' = menu
        /\ directories' =
               IF InList(current'.selector, directories) THEN directories
               ELSE Append(directories, current'.selector)
        /\ LET st == ProcessItems(menu, current'.host, current'.port, up,
                         [LoopState EXCEPT
                             !.selectors_to_visit = PopFirst(Truncated(selectors_to_visit)).rest])
           IN  /\ selectors_to_visit' = st.selectors_to_visit
               /\ text_files' = st.text_files
               /\ binary_files' = st.binary_files
               /\ invalid_references' = st.invalid_references
               /\ external_servers' = st.external_servers
               /\ probe_count' = st.probe_count
               /\ discovered' = Discovered(current'.selector,
                                           PopFirst(Truncated(selectors_to_visit)).rest,
                                           st.selectors_to_visit)
        /\ listed' = listed \cup ToFetch(menu, current'.host, current'.port)
        /\ UNCHANGED <<repertoire, pc, text_file_contents, file_sizes,
                       main_outcome, summary>>

\* A menu iteration on what the server of the repertoire answers.
FetchMenu ==
    \E menu \in Menus[repertoire], size \in MenuSizes(repertoire),
       request_duration \in DurationsOf(repertoire) :
      \E up \in [OtherServers(menu, RootHost, RootPort) -> BOOLEAN] :
        MenuIteration(menu, size, request_duration, up)

\* The content of every text file kept.
content_kept_always(file_size) == TRUE

\* Only store content for small text files (line 358).
content_kept(file_size) == file_size < 1024 * 1024

\* The file branch leaving a file that is flagged as problematic out of the
\* lists and the sizes.
FileIterationUnlessFlagged(is_text, size, request_duration) ==
        /\ Pop
        /\ Request(IF is_text THEN "text_bytes" ELSE "binary_bytes", size,
                   request_duration)
        /\ ~is_directory(<<>>, current'.selector)
        /\ selectors_to_visit' = PopFirst(Truncated(selectors_to_visit)).rest
        /\ problematic_resources' = Flagged(current'.selector, size, request_duration)
        /\ menu_items' = <<>>
        /\ file_sizes' =
               IF current'.selector \in problematic_resources' THEN file_sizes
               ELSE Put(file_sizes, current'.selector, size)
        /\ text_files' =
               IF is_text /\ ~InList(current'.selector, binary_files)
                          /\ ~InList(current'.selector, text_files)
                          /\ current'.selector \notin problematic_resources'
               THEN Append(text_files, current'.selector) ELSE text_files
        /\ text_file_contents' =
               IF is_text /\ ~InList(current'.selector, binary_files)
                          /\ size < 1024 * 1024
                          /\ current'.selector \notin problematic_resources'
               THEN Put(text_file_contents, current'.selector, size)
               ELSE text_file_contents
        /\ binary_files' =
               IF ~is_text /\ ~InList(current'.selector, text_files)
                           /\ ~InList(current'.selector, binary_files)
                           /\ current'.selector \notin problematic_resources'
               THEN Append(binary_files, current'.selector) ELSE binary_files
        /\ UNCHANGED <<repertoire, pc, directories, invalid_references,
                       external_servers, main_outcome, probe_count, discovered,
                       listed, summary>>

\* An iteration whose response is taken for a file (lines 263-309, 347-363):
\* no entry parses and the selector neither is empty nor ends in '/'.
\* is_text is what is_text_file answers for the bytes.
FileIteration(is_text, size, request_duration) ==
        /\ Pop
        /\ Request(IF is_text THEN "text_bytes" ELSE "binary_bytes", size,
                   request_duration)
        /\ ~is_directory(<<>>, current'.selector)
        /\ selectors_to_visit' = PopFirst(Truncated(selectors_to_visit)).rest
        /\ problematic_resources' = Flagged(current'.selector, size, request_duration)
        /\ menu_items' = <<>>
        /\ file_sizes' = Put(file_sizes, current'.selector, size)
        /\ text_files' =
               IF is_text /\ ~InList(current'.selector, binary_files)
                          /\ ~InList(current'.selector, text_files)
               THEN Append(text_files, current'.selector) ELSE text_files
        /\ text_file_contents' =
               IF is_text /\ ~InList(current'.selector, binary_files)
                          /\ content_kept(size)
               THEN Put(text_file_contents, current'.selector, size)
               ELSE text_file_contents
        /\ binary_files' =
               IF ~is_text /\ ~InList(current'.selector, text_files)
                           /\ ~InList(current'.selector, binary_files)
               THEN Append(binary_files, current'.selector) ELSE binary_files
        /\ UNCHANGED <<repertoire, pc, directories, invalid_references,
                       external_servers, main_outcome, probe_count, discovered,
                       listed, summary>>

\* The file branch without the guards of lines 354 and 361: the selector is
\* appended to the list the bytes call for although the other list has it.
FetchFileReassigning ==
    \E is_text \in BOOLEAN, size \in FileSizes(repertoire),
       request_duration \in DurationsOf(repertoire) :
        /\ Pop
        /\ Request(IF is_text THEN "text_bytes" ELSE "binary_bytes", size,
                   request_duration)
        /\ ~is_directory(<<>>, current'.selector)
        /\ selectors_to_visit' = PopFirst(Truncated(selectors_to_visit)).rest
        /\ problematic_resources' = Flagged(current'.selector, size, request_duration)
        /\ menu_items' = <<>>
        /\ file_sizes' = Put(file_sizes, current'.selector, size)
        /\ text_files' =
               IF is_text /\ ~InList(current'.selector, text_files)
               THEN Append(text_files, current'.selector) ELSE text_files
        /\ text_file_contents' =
               IF is_text /\ size < 1024 * 1024
               THEN Put(text_file_contents, current'.selector, size)
               ELSE text_file_contents
        /\ binary_files' =
               IF ~is_text /\ ~InList(current'.selector, binary_files)
               THEN Append(binary_files, current'.selector) ELSE binary_files
        /\ UNCHANGED <<repertoire, pc, directories, invalid_references,
                       external_servers, main_outcome, probe_count, discovered,
                       listed, summary>>

\* A file iteration on what the server of the repertoire answers.
FetchFile ==
    \E is_text \in BOOLEAN, size \in FileSizes(repertoire),
       request_duration \in DurationsOf(repertoire) :
        FileIteration(is_text, size, request_duration)

\* ------------------------------------------------------- the statistics

\* The filter keeping every file.
all_text_files == text_files

\* clean_text_files, clean_binary_files (lines 366-367)
clean_text_files ==
    SelectSeq(text_files, LAMBDA f : f \notin problematic_resources)

clean_binary_files ==
    SelectSeq(binary_files, LAMBDA f : f \notin problematic_resources)

\* float('inf') (lines 372, 387): above every len(response).
inf == 1024 * 1024 * 1024

\* No file found yet: the file is None and the size is the sentinel.  A file
\* or None is a sequence of one selector or of none.
NoFile(sentinel) == [file |-> <<>>, size |-> sentinel]

\* The scan for the smallest file of a list (lines 375-380, 390-395),
\* starting from best.
RECURSIVE smallest_file(_, _)
smallest_file(files, best) ==
    IF files = <<>> THEN best
    ELSE smallest_file(Tail(files),
             IF Head(files) \in DOMAIN file_sizes
                /\ file_sizes[Head(files)] < best.size
             THEN [file |-> <<Head(files)>>, size |-> file_sizes[Head(files)]]
             ELSE best)

\* The scan for the largest file taking a later file of the same size.
RECURSIVE largest_file_taking_last(_, _)
largest_file_taking_last(files, best) ==
    IF files = <<>> THEN best
    ELSE largest_file_taking_last(Tail(files),
             IF Head(files) \in DOMAIN file_sizes
                /\ file_sizes[Head(files)] >= best.size
             THEN [file |-> <<Head(files)>>, size |-> file_sizes[Head(files)]]
             ELSE best)

\* The scan for the largest file of a list (lines 375-383, 390-398).
RECURSIVE largest_file(_, _)
largest_file(files, best) ==
    IF files = <<>> THEN best
    ELSE largest_file(Tail(files),
             IF Head(files) \in DOMAIN file_sizes
                /\ file_sizes[Head(files)] > best.size
             THEN [file |-> <<Head(files)>>, size |-> file_sizes[Head(files)]]
             ELSE best)

\* The report of a file whatever it is.
ReportedAlways(best) == <<best>>

\* What lines 416-434 print of a smallest or largest file: nothing when the
\* file is None or the empty string, else the file and its size.
Reported(best) ==
    IF best.file # <<>> /\ best.file[1] # <<>> THEN <<best>> ELSE <<>>

\* The smallest and largest files the summary reports (lines 369-398,
\* 416-434).
Summary ==
    [ smallest_text |-> Reported(smallest_file(clean_text_files, NoFile(inf))),
      largest_text |-> Reported(largest_file(clean_text_files, NoFile(0))),
      smallest_binary |-> Reported(smallest_file(clean_binary_files, NoFile(inf))),
      largest_binary |-> Reported(largest_file(clean_binary_files, NoFile(0))),
      problematic |-> problematic_resources ]

\* The loop is left (line 263 is false); main computes and prints the summary
\* (lines 365-448) and returns.
Finish ==
    /\ pc = "loop"
    /\ ~LoopCondition
    /\ pc' = "done"
    /\ main_outcome' = "returned"
    /\ summary' = <<Summary>>
    /\ UNCHANGED <<repertoire, selectors_to_visit, processed_count,
                   visited_selectors, results, download_times, current, menu_items,
                   request_count, request_result, probe_count, fetched,
                   response_size, discovered, listed, ever_truncated>>

Next ==
    \/ Skip /\ UNCHANGED aside
    \/ FetchFailed /\ UNCHANGED aside
    \/ FetchMenu /\ UNCHANGED aside
    \/ FetchFile /\ UNCHANGED aside
    \/ Finish /\ UNCHANGED aside

Spec == Init /\ [][Next]_vars

\* main is one sequential thread: as long as a step is possible it is taken
\* (every fetch and every probe returns, their timeouts being finite).
FairSpec == Spec /\ WF_vars(Next)

\* ------------------------------------------------------ bytes and text

\* The characters of the model and their code points: chr() and ord() on
\* them.  "e'" is U+00E9, "U+FFFD" the replacement character.
Chars ==
    (9 :> "\t") @@ (10 :> "\n") @@ (13 :> "\r") @@ (32 :> " ") @@ (43 :> "+")
    @@ (45 :> "-") @@ (46 :> ".") @@ (47 :> "/") @@ (48 :> "0") @@ (49 :> "1")
    @@ (51 :> "3") @@ (53 :> "5") @@ (54 :> "6") @@ (55 :> "7") @@ (57 :> "9")
    @@ (95 :> "_") @@ (97 :> "a") @@ (98 :> "b") @@ (99 :> "c") @@ (100 :> "d")
    @@ (104 :> "h") @@ (105 :> "i") @@ (120 :> "x") @@ (233 :> "e'") @@ (65533 :> "U+FFFD")

chr(cp) == IF cp \in DOMAIN Chars THEN Chars[cp] ELSE ToString(cp)

ord(c) == CHOOSE cp \in DOMAIN Chars : Chars[cp] = c

\* The continuation bytes a UTF-8 sequence needs after its lead byte; 0 for
\* a byte that cannot lead one.
Continuations(lead) ==
    IF lead \in 194..223 THEN 1
    ELSE IF lead \in 224..239 THEN 2
    ELSE IF lead \in 240..244 THEN 3
    ELSE 0

\* The values the byte after the lead byte may have.
SecondByteRange(lead) ==
    CASE lead = 224 -> 160..191
      [] lead = 237 -> 128..159
      [] lead = 240 -> 144..191
      [] lead = 244 -> 128..143
      [] OTHER -> 128..191

\* How many of the first n bytes after the lead byte of b continue it.
RECURSIVE Continued(_, _)
Continued(b, n) ==
    IF n = 0 THEN 0
    ELSE LET k == Continued(b, n - 1)
         IN  IF /\ k = n - 1
                /\ Len(b) >= n + 1
                /\ b[n + 1] \in (IF n = 1 THEN SecondByteRange(b[1]) ELSE 128..191)
             THEN n ELSE k

\* The code point of the UTF-8 sequence of n + 1 bytes that b starts with.
CodePoint(b, n) ==
    CASE n = 1 -> (b[1] - 192) * 64 + (b[2] - 128)
      [] n = 2 -> (b[1] - 224) * 4096 + (b[2] - 128) * 64 + (b[3] - 128)
      [] n = 3 -> (b[1] - 240) * 262144 + (b[2] - 128) * 4096
                  + (b[3] - 128) * 64 + (b[4] - 128)

\* bytes.decode('utf-8', errors='replace') (line 91): each sequence that is
\* not valid UTF-8 becomes one U+FFFD, and nothing is raised.
RECURSIVE decode_replace(_)
decode_replace(b) ==
    IF b = <<>> THEN <<>>
    ELSE IF b[1] < 128 THEN <<chr(b[1])>> \o decode_replace(Tail(b))
    ELSE LET n == Continuations(b[1])
             k == Continued(b, n)
         IN  IF n > 0 /\ k = n
             THEN <<chr(CodePoint(b, n))>>
                  \o decode_replace(SubSeq(b, n + 2, Len(b)))
             ELSE <<chr(65533)>> \o decode_replace(SubSeq(b, k + 2, Len(b)))

\* str.encode('utf-8') (line 22)
RECURSIVE encode(_)
encode(s) ==
    IF s = <<>> THEN <<>>
    ELSE LET cp == ord(Head(s))
         IN  (IF cp < 128 THEN <<cp>>
              ELSE IF cp < 2048 THEN <<192 + (cp \div 64), 128 + (cp % 64)>>
              ELSE <<224 + (cp \div 4096), 128 + ((cp \div 64) % 64), 128 + (cp % 64)>>)
             \o encode(Tail(s))

\* The index of the first occurrence of sep in s, 0 if there is none.
Find(s, sep) ==
    IF \E i \in 1..(Len(s) - Len(sep) + 1) : SubSeq(s, i, i + Len(sep) - 1) = sep
    THEN CHOOSE i \in 1..(Len(s) - Len(sep) + 1) :
             /\ SubSeq(s, i, i + Len(sep) - 1) = sep
             /\ \A j \in 1..(i - 1) : SubSeq(s, j, j + Len(sep) - 1) # sep
    ELSE 0

\* str.split(sep)
RECURSIVE split(_, _)
split(s, sep) ==
    IF Find(s, sep) = 0 THEN <<s>>
    ELSE <<SubSeq(s, 1, Find(s, sep) - 1)>>
         \o split(SubSeq(s, Find(s, sep) + Len(sep), Len(s)), sep)

\* The decimal digits.
Digit ==
    ("0" :> 0) @@ ("1" :> 1) @@ ("2" :> 2) @@ ("3" :> 3) @@ ("4" :> 4)
    @@ ("5" :> 5) @@ ("6" :> 6) @@ ("7" :> 7) @@ ("8" :> 8) @@ ("9" :> 9)

\* The number that a sequence of digits and underscores denotes.
RECURSIVE Decimal(_)
Decimal(s) ==
    IF s = <<>> THEN 0
    ELSE IF s[Len(s)] = "_" THEN Decimal(SubSeq(s, 1, Len(s) - 1))
    ELSE Decimal(SubSeq(s, 1, Len(s) - 1)) * 10 + Digit[s[Len(s)]]

\* What int() accepts after the sign: digits, single underscores between them.
IsDecimal(s) ==
    /\ s # <<>>
    /\ \A i \in 1..Len(s) : s[i] \in DOMAIN Digit \/ s[i] = "_"
    /\ s[1] # "_" /\ s[Len(s)] # "_"
    /\ \A i \in 1..(Len(s) - 1) : ~(s[i] = "_" /\ s[i + 1] = "_")

\* int(s) of a str (line 122): raised is the ValueError.
int(s) ==
    LET t == Strip(s)
        signed == t # <<>> /\ t[1] \in {"+", "-"}
        digits == IF signed THEN Tail(t) ELSE t
    IN  IF IsDecimal(digits)
        THEN [raised |-> FALSE,
              value |-> IF signed /\ t[1] = "-" THEN 0 - Decimal(digits)
                        ELSE Decimal(digits)]
        ELSE [raised |-> TRUE, value |-> 0]

\* ---------------------------------------------------- parse_gopher_menu

\* The bytes of a text of ASCII characters.
B(s) == [i \in 1..Len(s) |-> ord(s[i])]

\* A line of a menu as the server means it: kind is "entry" (type, display,
\* selector, host, port), "short" (type, display, selector, host: three
\* fields), "dot" (the terminator) or "empty".  The fields are bytes.  The
\* port field is the bytes of port_text; numeric says whether they are a
\* decimal number, number which one.  extra is a fifth field.
ServerLine(kind, type, selector, host, port_text, numeric, number, extra) ==
    [kind |-> kind, type |-> B(<<type>>), display |-> B(<<"d">>),
     selector |-> selector, host |-> B(host), port_text |-> B(port_text),
     numeric |-> numeric, number |-> number, extra |-> extra]

\* The lines a server builds its menus from.
ServerLines ==
    { ServerLine("entry", "1", B(<<"a">>), <<"h">>, <<"7", "0">>, TRUE, 70, FALSE),
      ServerLine("entry", "0", B(<<"b">>), <<"h">>, <<"0">>, TRUE, 0, FALSE),
      ServerLine("entry", "3", B(<<"b">>), <<"h">>, <<"x">>, FALSE, 0, FALSE),
      ServerLine("entry", "0", <<99, 233>>, <<"h">>, <<"7", "0">>, TRUE, 70, FALSE),
      ServerLine("entry", "0", <<99, 195, 169>>, <<"h">>, <<"1">>, TRUE, 1, TRUE),
      ServerLine("entry", "1", B(<<"a">>), <<"x">>, <<"6", "5", "5", "3", "6">>,
                 TRUE, 65536, FALSE),
      ServerLine("entry", "9", B(<<"b">>), <<"h">>, <<"-", "1">>, TRUE, -1, FALSE),
      ServerLine("entry", "i", <<>>, <<"h">>, <<"6", "5", "5", "3", "5">>,
                 TRUE, 65535, FALSE),
      ServerLine("entry", "1", B(<<"/">>), <<"h">>, <<>>, FALSE, 0, FALSE),
      ServerLine("entry", "0", B(<<"b">>), <<"h">>, <<" ", "7", "_", "1">>,
                 TRUE, 71, FALSE),
      ServerLine("short", "1", B(<<"a">>), <<"h">>, <<>>, FALSE, 0, FALSE),
      ServerLine("dot", ".", <<>>, <<>>, <<>>, FALSE, 0, FALSE),
      ServerLine("empty", ".", <<>>, <<>>, <<>>, FALSE, 0, FALSE) }

\* The bytes of a line.
Raw(l) ==
    CASE l.kind = "dot" -> B(<<".">>)
      [] l.kind = "empty" -> <<>>
      [] l.kind = "short" ->
             l.type \o l.display \o B(<<"\t">>) \o l.selector \o B(<<"\t">>)
             \o l.host
      [] l.kind = "entry" ->
             l.type \o l.display \o B(<<"\t">>) \o l.selector \o B(<<"\t">>)
             \o l.host \o B(<<"\t">>) \o l.port_text
             \o (IF l.extra THEN B(<<"\t", "+">>) ELSE <<>>)

\* The bytes of a menu: every line is followed by CR LF.
RECURSIVE Serialise(_)
Serialise(menu) ==
    IF menu = <<>> THEN <<>>
    ELSE Raw(Head(menu)) \o B(<<"\r", "\n">>) \o Serialise(Tail(menu))

\* The sequences of 1 to n elements of S.
RECURSIVE SeqsUpTo(_, _)
SeqsUpTo(S, n) ==
    IF n = 0 THEN {}
    ELSE { <<x>> : x \in S }
         \cup { Append(m, x) : m \in SeqsUpTo(S, n - 1), x \in S }

\* The menus a server sends.
ServerMenus == SeqsUpTo(ServerLines, MaxLines)

\* line[1:].split('\t') (line 113)
PartsOf(line) == split(Tail(line), <<"\t">>)

\* Lines 104-105: an empty line or the ending period line.
IsSkipped(line) == line = <<>> \/ line = <<".">>

\* The port of an item without the range check of line 124.
port_of_unchecked(text) ==
    IF int(text).raised THEN 70 ELSE int(text).value

\* The port of an item (lines 121-127).
port_of(text) ==
    IF int(text).raised THEN 70
    ELSE IF int(text).value <= 0 \/ int(text).value > 65535 THEN 70
    ELSE int(text).value

\* parse_gopher_menu is called with the bytes of a menu the server sent for
\* the root selector (line 303).
ParserInit ==
    /\ repertoire = 1
    /\ MainStart
    /\ sent \in ServerMenus
    /\ response = Serialise(sent)
    /\ lines = <<>>
    /\ items = <<>>
    /\ parse_pc = "call"
    /\ ClassifierIdle
    /\ TransportIdle
    /\ DraftsIdle

\* Lines 89-102: the response is decoded and split into lines.
ParseStart ==
    /\ parse_pc = "call"
    /\ lines' = split(decode_replace(response), <<"\r", "\n">>)
    /\ items' = <<>>
    /\ parse_pc' = "loop"
    /\ UNCHANGED <<vars, sent, response>>

\* Lines 104-105, with break for continue: the loop is left.
SkipLineEndsLoop ==
    /\ parse_pc = "loop"
    /\ lines # <<>>
    /\ IsSkipped(Head(lines))
    /\ lines' = <<>>
    /\ UNCHANGED <<vars, sent, response, items, parse_pc>>

\* An iteration for an empty line or the ending period line (lines 102-105):
\* the loop goes on with the next line.
SkipLine ==
    /\ parse_pc = "loop"
    /\ lines # <<>>
    /\ IsSkipped(Head(lines))
    /\ lines' = Tail(lines)
    /\ UNCHANGED <<vars, sent, response, items, parse_pc>>

\* The item that lines 112-135 make of a line of at least four fields.
ItemOf(line) ==
    [type |-> line[1], display |-> PartsOf(line)[1], selector |-> PartsOf(line)[2],
     host |-> PartsOf(line)[3], port |-> port_of(PartsOf(line)[4])]

\* The item of a line whose missing fields are padded with '', as
\* parse_gopher_line of gopher_client_04.py pads them.
PaddedItem(line) ==
    LET parts == PartsOf(line) \o <<<<>>, <<>>, <<>>, <<>>>>
    IN  [type |-> line[1], display |-> parts[1], selector |-> parts[2],
         host |-> parts[3], port |-> port_of(parts[4])]

\* An iteration for a line of fewer than four fields that pads the line.
DropLinePadded ==
    /\ parse_pc = "loop"
    /\ lines # <<>>
    /\ ~IsSkipped(Head(lines))
    /\ Len(PartsOf(Head(lines))) < 4
    /\ lines' = Tail(lines)
    /\ items' = Append(items, PaddedItem(Head(lines)))
    /\ UNCHANGED <<vars, sent, response, parse_pc>>

\* An iteration for a line of fewer than four fields (lines 102-116): nothing
\* is appended.
DropLine ==
    /\ parse_pc = "loop"
    /\ lines # <<>>
    /\ ~IsSkipped(Head(lines))
    /\ Len(PartsOf(Head(lines))) < 4
    /\ lines' = Tail(lines)
    /\ UNCHANGED <<vars, sent, response, items, parse_pc>>

\* An iteration for a line of at least four fields (lines 102-135).
AppendItem ==
    /\ parse_pc = "loop"
    /\ lines # <<>>
    /\ ~IsSkipped(Head(lines))
    /\ Len(PartsOf(Head(lines))) >= 4
    /\ lines' = Tail(lines)
    /\ items' = Append(items, ItemOf(Head(lines)))
    /\ UNCHANGED <<vars, sent, response, parse_pc>>

\* return items (line 137)
ParseReturn ==
    /\ parse_pc = "loop"
    /\ lines = <<>>
    /\ parse_pc' = "returned"
    /\ UNCHANGED <<vars, sent, response, lines, items>>

\* The items as main reads them: display is not read.
AsMenu(parsed) ==
    [i \in 1..Len(parsed) |->
        Entry(parsed[i].type, parsed[i].selector, parsed[i].host, parsed[i].port)]

\* The first iteration of main on the parsed response (lines 263-346).
ProcessParsed ==
    /\ parse_pc = "returned"
    /\ \E request_duration \in Durations :
         \E up \in [OtherServers(AsMenu(items), RootHost, RootPort) -> BOOLEAN] :
           MenuIteration(AsMenu(items), Len(response), request_duration, up)
    /\ parse_pc' = "processed"
    /\ UNCHANGED <<sent, response, lines, items>>

ParserNext ==
    \/ ParseStart /\ UNCHANGED not_parser
    \/ SkipLine /\ UNCHANGED not_parser
    \/ DropLine /\ UNCHANGED not_parser
    \/ AppendItem /\ UNCHANGED not_parser
    \/ ParseReturn /\ UNCHANGED not_parser
    \/ ProcessParsed /\ UNCHANGED not_parser

ParserSpec == ParserInit /\ [][ParserNext]_<<vars, aside>>

\* --------------------------------------------------------- is_text_file

\* data[:sample_size] (line 154)
Sample(bytes) ==
    SubSeq(bytes, 1, IF Len(bytes) < sample_size THEN Len(bytes) ELSE sample_size)

\* sample.decode('utf-8') raises nothing (line 160): the bytes are sequences
\* of valid UTF-8 from the first to the last.
RECURSIVE IsUtf8(_)
IsUtf8(b) ==
    IF b = <<>> THEN TRUE
    ELSE IF b[1] < 128 THEN IsUtf8(Tail(b))
    ELSE /\ Continuations(b[1]) > 0
         /\ Continued(b, Continuations(b[1])) = Continuations(b[1])
         /\ IsUtf8(SubSeq(b, Continuations(b[1]) + 2, Len(b)))

\* c.isprintable() or c.isspace() of the character that a byte decodes to in
\* Latin-1 (lines 167-169).
PrintableOrSpace(byte) ==
    byte \in (9..13) \cup (28..126) \cup {133} \cup (160..172) \cup (174..255)

\* printable_chars (line 169)
printable_chars(sample) ==
    Cardinality({ i \in 1..Len(sample) : PrintableOrSpace(sample[i]) })

\* len(sample) > 0 and printable_chars / len(sample) > 0.8 (line 170)
MostlyPrintable(sample) ==
    Len(sample) > 0 /\ 5 * printable_chars(sample) > 4 * Len(sample)

\* The signatures of lines 175-180: PK, \x89PNG, GIF, BM, \xFF\xD8\xFF\xE0,
\* %PDF-.
binary_signatures ==
    { <<80, 75>>, <<137, 80, 78, 71>>, <<71, 73, 70>>, <<66, 77>>,
      <<255, 216, 255, 224>>, <<37, 80, 68, 70, 45>> }

\* data.startswith(sig) for one of the signatures (lines 176-181)
HasSignature(bytes) ==
    \E sig \in binary_signatures :
        Len(bytes) >= Len(sig) /\ SubSeq(bytes, 1, Len(sig)) = sig

\* The bytes that follow the first bytes of a payload: a letter, NUL, and two
\* bytes that are not UTF-8, one printable in Latin-1 and one not.
TailBytes == {65, 0, 255, 128}

\* The sequences of at most n elements of S.
SeqsWithin(S, n) == {<<>>} \cup SeqsUpTo(S, n)

\* The payloads is_text_file is called with: nothing or a signature, then
\* at most MaxTail bytes.
Payloads ==
    { p \o t : p \in binary_signatures \cup {<<>>},
               t \in SeqsWithin(TailBytes, MaxTail) }

ClassifierInit ==
    /\ repertoire = 1
    /\ MainStart
    /\ ParserIdle
    /\ data \in Payloads
    /\ answer = FALSE
    /\ classify_pc = "call"
    /\ TransportIdle
    /\ DraftsIdle

\* What every return of is_text_file does.
Return(value) ==
    /\ classify_pc = "call"
    /\ classify_pc' = "returned"
    /\ answer' = value
    /\ UNCHANGED <<vars, data>>

\* Lines 150-151
ReturnEmpty ==
    /\ data = <<>>
    /\ Return(FALSE)

\* Lines 158-162
ReturnUtf8 ==
    /\ data # <<>>
    /\ IsUtf8(Sample(data))
    /\ Return(TRUE)

\* Lines 163-172
ReturnPrintable ==
    /\ data # <<>>
    /\ ~IsUtf8(Sample(data))
    /\ MostlyPrintable(Sample(data))
    /\ Return(TRUE)

\* Lines 174-181
ReturnSignature ==
    /\ data # <<>>
    /\ ~IsUtf8(Sample(data))
    /\ ~MostlyPrintable(Sample(data))
    /\ HasSignature(data)
    /\ Return(FALSE)

\* Lines 183-184
ReturnDefault ==
    /\ data # <<>>
    /\ ~IsUtf8(Sample(data))
    /\ ~MostlyPrintable(Sample(data))
    /\ ~HasSignature(data)
    /\ Return(TRUE)

ClassifierNext ==
    \/ ReturnEmpty /\ UNCHANGED not_classifier
    \/ ReturnUtf8 /\ UNCHANGED not_classifier
    \/ ReturnPrintable /\ UNCHANGED not_classifier
    \/ ReturnSignature /\ UNCHANGED not_classifier
    \/ ReturnDefault /\ UNCHANGED not_classifier

ClassifierSpec == ClassifierInit /\ [][ClassifierNext]_<<vars, aside>>

\* ---------------------------------------------------- send_gopher_request

\* The seconds a recv that returns bytes has waited for them: less than the
\* socket's timeout.
RecvDelays == {0, 4, 9}

\* The seconds after which a recv that gets nothing raises socket.timeout, as
\* the next time.time() shows them: the timeout, or more.
TimeoutDelays == {timeout, timeout + 1}

\* What can raise before the loop: socket.socket (line 14), the name lookup
\* and the connection of s.connect (line 18), s.sendall (lines 21-24).
ConnectFailures == {"socket", "resolve", "connect", "send"}

\* Every exception of the try block.
Failures == ConnectFailures \cup {"recv"}

\* main after its first iteration (lines 263-346), the root menu having had
\* the one entry 1a<TAB>a<TAB>h<TAB>70: the selector a is the next to fetch.
MainAfterRoot ==
    /\ pc = "loop"
    /\ selectors_to_visit = <<Item(<<"a">>, RootHost, RootPort)>>
    /\ processed_count = 1
    /\ visited_selectors = {RootSelector}
    /\ directories = <<RootSelector>>
    /\ text_files = <<>>
    /\ binary_files = <<>>
    /\ invalid_references = {}
    /\ external_servers = EmptyDict
    /\ problematic_resources = {}
    /\ text_file_contents = EmptyDict
    /\ file_sizes = EmptyDict
    /\ download_times = Put(EmptyDict, RootSelector, 1)
    /\ current = Item(RootSelector, RootHost, RootPort)
    /\ menu_items = <<Entry("1", <<"a">>, RootHost, RootPort)>>
    /\ main_outcome = "running"
    /\ request_count = Put(EmptyDict, RootSelector, 1)
    /\ request_result = Put(EmptyDict, RootSelector, "ok")
    /\ probe_count = EmptyDict
    /\ fetched = <<RootSelector>>
    /\ response_size = Put(EmptyDict, RootSelector, 100)
    /\ discovered = Put(Put(EmptyDict, RootSelector, 0), <<"a">>, 1)
    /\ listed = {<<"a">>}
    /\ ever_truncated = FALSE
    /\ summary = <<>>

TransportInit ==
    /\ repertoire = 1
    /\ MainAfterRoot
    /\ ParserIdle
    /\ ClassifierIdle
    /\ DraftsIdle
    /\ transport_pc = "connect"
    /\ received = 0
    /\ returned = 0
    /\ clock = 0
    /\ start_time = 0
    /\ current_time = 0
    /\ last_progress_time = 0
    /\ last_byte_at = 0
    /\ left_by = "nothing"

\* The return of line 68: the loop is left by way, the socket is closed and
\* the bytes read are returned.
ReturnBy(way) ==
    /\ transport_pc' = "returned"
    /\ left_by' = way
    /\ returned' = received

\* An exception of the try block that no handler catches.
Uncaught(way) ==
    /\ transport_pc' = "raised"
    /\ left_by' = way
    /\ UNCHANGED returned

\* An exception of the try block (lines 70-84): socket.timeout, socket.error
\* and every other Exception are caught, b"" is returned, and the close of
\* the finally clause is itself guarded.
Caught(way) ==
    /\ transport_pc' = "returned"
    /\ left_by' = way
    /\ returned' = 0

\* Lines 14-29: the socket connects and the selector is sent, each within the
\* timeout, and the clock is read; or one of them raises.
Connect ==
    /\ transport_pc = "connect"
    /\ \/ /\ transport_pc' = "check"
          /\ start_time' = clock
          /\ last_progress_time' = clock
          /\ UNCHANGED <<left_by, returned>>
       \/ /\ \E way \in ConnectFailures : Caught(way)
          /\ UNCHANGED <<start_time, last_progress_time>>
    /\ UNCHANGED <<vars, received, clock, current_time, last_byte_at>>

\* The top of the loop with the time check alone.
CheckTimeOnly ==
    /\ transport_pc = "check"
    /\ current_time' = clock
    /\ IF clock - start_time > max_time
       THEN ReturnBy("time")
       ELSE transport_pc' = "recv" /\ UNCHANGED <<left_by, returned>>
    /\ UNCHANGED <<vars, received, clock, start_time, last_progress_time,
                   last_byte_at>>

\* The top of the loop with the size check alone.
CheckSizeOnly ==
    /\ transport_pc = "check"
    /\ IF received > max_data_size
       THEN ReturnBy("size") /\ UNCHANGED current_time
       ELSE /\ current_time' = clock
            /\ transport_pc' = "recv"
            /\ UNCHANGED <<left_by, returned>>
    /\ UNCHANGED <<vars, received, clock, start_time, last_progress_time,
                   last_byte_at>>

\* The top of the loop (lines 31-41): the size check, then the time check.
Check ==
    /\ transport_pc = "check"
    /\ IF received > max_data_size
       THEN ReturnBy("size") /\ UNCHANGED current_time
       ELSE /\ current_time' = clock
            /\ IF clock - start_time > max_time
               THEN ReturnBy("time")
               ELSE transport_pc' = "recv" /\ UNCHANGED <<left_by, returned>>
    /\ UNCHANGED <<vars, received, clock, start_time, last_progress_time,
                   last_byte_at>>

\* s.recv returns a chunk of 1 to recv_size bytes (lines 44-53).
RecvChunk ==
    /\ transport_pc = "recv"
    /\ \E n \in 1..recv_size, delay \in RecvDelays :
           /\ received' = received + n
           /\ clock' = clock + delay
    /\ last_progress_time' = current_time
    /\ last_byte_at' = clock'
    /\ transport_pc' = "check"
    /\ UNCHANGED <<vars, start_time, current_time, left_by, returned>>

\* s.recv returns b'': the peer has closed the connection (lines 44-46).
RecvClosed ==
    /\ transport_pc = "recv"
    /\ \E delay \in RecvDelays : clock' = clock + delay
    /\ ReturnBy("closed")
    /\ UNCHANGED <<vars, received, start_time, current_time, last_progress_time,
                   last_byte_at>>

\* s.recv raises socket.timeout (lines 55-59).  The idle check compares the
\* time read at the top of this iteration with the time read at the top of
\* the last iteration that received bytes.
RecvTimeout ==
    /\ transport_pc = "recv"
    /\ \E delay \in TimeoutDelays : clock' = clock + delay
    /\ IF current_time - last_progress_time > timeout
       THEN ReturnBy("idle")
       ELSE transport_pc' = "check" /\ UNCHANGED <<left_by, returned>>
    /\ UNCHANGED <<vars, received, start_time, current_time, last_progress_time,
                   last_byte_at>>

\* s.recv raises another socket.error (lines 44, 73-75).
RecvError ==
    /\ transport_pc = "recv"
    /\ \E delay \in RecvDelays : clock' = clock + delay
    /\ Caught("recv")
    /\ UNCHANGED <<vars, received, start_time, current_time, last_progress_time,
                   last_byte_at>>

\* main goes on with the bytes returned for a (lines 278-363), the request
\* having taken the seconds on the clock: b"" is a failed request; other
\* bytes are those of a file here (no line of them parses as an entry).
HandleResponse ==
    /\ transport_pc = "returned"
    /\ transport_pc' = "handled"
    /\ IF returned = 0
       THEN FailedIteration(IF left_by \in Failures THEN "connect_error"
                            ELSE "empty_response", clock)
       ELSE \E is_text \in BOOLEAN : FileIteration(is_text, returned, clock)
    /\ UNCHANGED <<received, returned, clock, start_time, current_time,
                   last_progress_time, last_byte_at, left_by>>

TransportNext ==
    \/ Connect /\ UNCHANGED not_transport
    \/ Check /\ UNCHANGED not_transport
    \/ RecvChunk /\ UNCHANGED not_transport
    \/ RecvClosed /\ UNCHANGED not_transport
    \/ RecvTimeout /\ UNCHANGED not_transport
    \/ RecvError /\ UNCHANGED not_transport
    \/ HandleResponse /\ UNCHANGED not_transport

TransportSpec == TransportInit /\ [][TransportNext]_<<vars, aside>>

\* send_gopher_request is one sequential call: the step it can take is
\* taken (connect, sendall and recv return or raise within the timeout).
TransportFairSpec == TransportSpec /\ WF_<<vars, aside>>(TransportNext)

\* --------------------------------------- main run twice on the same site

\* The menus the server of a site answers with.
SiteMenus ==
    { <<Entry("1", <<"a">>, RootHost, RootPort),
        Entry("0", <<"b">>, RootHost, RootPort)>>,
      <<Entry("0", <<"b">>, RootHost, RootPort),
        Entry("1", <<"a">>, RootHost, RootPort)>>,
      <<Entry("1", <<"a">>, OtherHost, RootPort),
        Entry("1", <<"a">>, RootHost, RootPort)>>,
      <<Entry("9", <<"b">>, RootHost, RootPort),
        Entry("0", <<"b">>, RootHost, RootPort)>> }

\* What a server answers to the request for one selector: nothing (kind is
\* the FailureKind), a menu, or the bytes of a file, which is_text_file calls
\* text or not.
SiteAnswers ==
    { [kind |-> k, menu |-> <<>>, is_text |-> FALSE, size |-> 0] :
        k \in FailureKinds }
    \cup { [kind |-> "menu", menu |-> m, is_text |-> FALSE, size |-> 100] :
             m \in SiteMenus }
    \cup { [kind |-> "file", menu |-> <<>>, is_text |-> t, size |-> n] :
             t \in BOOLEAN, n \in Sizes }

\* The sites: what the server answers to each selector, every time (the
\* root with a menu), and which other servers take a connection.
Sites ==
    { [answers |-> (RootSelector :> root) @@ (<<"a">> :> a) @@ (<<"b">> :> b),
       up |-> up] :
        root \in { r \in SiteAnswers : r.kind = "menu" },
        a \in SiteAnswers, b \in SiteAnswers,
        up \in [{<<OtherHost, RootPort>>} -> BOOLEAN] }

\* What the claim compares of two crawls: the selectors fetched, in their
\* order, and the results but problematic_resources and the samples.
Outcome ==
    [fetched |-> fetched, directories |-> directories, text_files |-> text_files,
     binary_files |-> binary_files, file_sizes |-> file_sizes,
     invalid_references |-> invalid_references,
     external_servers |-> external_servers]

\* main is started on a site (lines 451-452).
RepeatInit ==
    /\ repertoire = 7
    /\ MainStart
    /\ ParserIdle
    /\ ClassifierIdle
    /\ TransportIdle
    /\ RecursiveIdle
    /\ ClassIdle
    /\ site \in Sites
    /\ first = <<>>

\* What the site answers to the selector that the next iteration pops.
Answer == site.answers[PopFirst(Truncated(selectors_to_visit)).item.selector]

\* An iteration of main is about to request a selector from the site.
AboutToRequest ==
    /\ pc = "loop"
    /\ LoopCondition
    /\ ~AlreadyVisited(PopFirst(Truncated(selectors_to_visit)).item.selector)

\* An iteration whose request the site does not answer; how long the
\* request takes is not the site's to fix.
SiteFails ==
    /\ AboutToRequest
    /\ Answer.kind \in FailureKinds
    /\ \E request_duration \in Durations :
           FailedIteration(Answer.kind, request_duration)
    /\ UNCHANGED <<aside_of_repeat, site, first>>

\* An iteration whose request the site answers with a menu.
SiteSendsMenu ==
    /\ AboutToRequest
    /\ Answer.kind = "menu"
    /\ \E request_duration \in Durations :
           MenuIteration(Answer.menu, Answer.size, request_duration, site.up)
    /\ UNCHANGED <<aside_of_repeat, site, first>>

\* An iteration whose request the site answers with a file.
SiteSendsFile ==
    /\ AboutToRequest
    /\ Answer.kind = "file"
    /\ \E request_duration \in Durations :
           FileIteration(Answer.is_text, Answer.size, request_duration)
    /\ UNCHANGED <<aside_of_repeat, site, first>>

\* main has returned for the first time and is run again, from the state of
\* lines 235-260, on the same site.
Restart ==
    /\ pc = "done"
    /\ first = <<>>
    /\ first' = <<Outcome>>
    /\ pc' = "loop"
    /\ selectors_to_visit' = <<Item(RootSelector, RootHost, RootPort)>>
    /\ processed_count' = 0
    /\ visited_selectors' = {}
    /\ directories' = <<>>
    /\ text_files' = <<>>
    /\ binary_files' = <<>>
    /\ invalid_references' = {}
    /\ external_servers' = EmptyDict
    /\ problematic_resources' = {}
    /\ text_file_contents' = EmptyDict
    /\ file_sizes' = EmptyDict
    /\ download_times' = EmptyDict
    /\ current' = Item(RootSelector, RootHost, RootPort)
    /\ menu_items' = <<>>
    /\ main_outcome' = "running"
    /\ request_count' = EmptyDict
    /\ request_result' = EmptyDict
    /\ probe_count' = EmptyDict
    /\ fetched' = <<>>
    /\ response_size' = EmptyDict
    /\ discovered' = Put(EmptyDict, RootSelector, 0)
    /\ listed' = {}
    /\ ever_truncated' = FALSE
    /\ summary' = <<>>
    /\ UNCHANGED <<repertoire, aside_of_repeat, site>>

RepeatNext ==
    \/ Skip /\ UNCHANGED <<aside_of_repeat, site, first>>
    \/ SiteFails
    \/ SiteSendsMenu
    \/ SiteSendsFile
    \/ Finish /\ UNCHANGED <<aside_of_repeat, site, first>>
    \/ Restart

\* Two runs of main, one after the other, on one site.
RepeatSpec == RepeatInit /\ [][RepeatNext]_<<vars, aside>>

\* ---------------------------------- gopher_client.py, the recursive draft

\* One line of a menu as the server writes it, without its CR LF.
DraftLine(type, path, host, port) ==
    <<type, "d", "\t">> \o path \o <<"\t">> \o host \o <<"\t">> \o port

\* The menus the server of the recursive draft answers with: a directory and
\* a text file; one text file on two lines; a binary file and a directory; a
\* line of three fields, an error entry and an info line; a directory of
\* another host and the ending period; one selector as text and as binary; one
\* selector as directory and as text; a directory whose port is no number; a
\* line of plain text.
DraftMenus ==
    { <<DraftLine("1", <<"a">>, RootHost, <<"7", "0">>),
        DraftLine("0", <<"b">>, RootHost, <<"7", "0">>)>>,
      <<DraftLine("0", <<"b">>, RootHost, <<"7", "0">>),
        DraftLine("0", <<"b">>, RootHost, <<"7", "0">>)>>,
      <<DraftLine("9", <<"b">>, RootHost, <<"7", "0">>),
        DraftLine("1", <<"a">>, RootHost, <<"7", "0">>)>>,
      <<<<"1", "d", "\t", "a", "\t", "h">>,
        DraftLine("3", <<"b">>, RootHost, <<"7", "0">>),
        DraftLine("i", <<>>, RootHost, <<"7", "0">>)>>,
      <<DraftLine("1", <<"a">>, OtherHost, <<"7", "0">>), <<".">>>>,
      <<DraftLine("0", <<"b">>, RootHost, <<"7", "0">>),
        DraftLine("9", <<"b">>, RootHost, <<"7", "0">>)>>,
      <<DraftLine("1", <<"b">>, RootHost, <<"7", "0">>),
        DraftLine("0", <<"b">>, RootHost, <<"7", "0">>)>>,
      <<DraftLine("1", <<"a">>, RootHost, <<"x">>)>>,
      <<<<"a", "b">>>> }

\* The text of a response: every line is followed by CR LF.  The servers of
\* the model write ASCII, which decode (line 35) gives back character by
\* character.
RECURSIVE ServerText(_)
ServerText(menu) ==
    IF menu = <<>> THEN <<>>
    ELSE Head(menu) \o <<"\r", "\n">> \o ServerText(Tail(menu))

\* What a request of the draft can end in other than bytes: no connection
\* (nothing was sent) or an exception of recv (the selector was sent).
DraftFailures == {"connect", "recv"}

\* The sizes of the files the server of the draft sends, the empty file
\* included.
DraftSizes == {0} \cup Sizes

\* How a request of the draft ends: in a failure, or in size bytes read.
DraftOutcomes ==
    { [kind |-> k, size |-> 0] : k \in DraftFailures }
    \cup { [kind |-> "bytes", size |-> n] : n \in DraftSizes }

\* GopherClient.__init__ (lines 6-18); smallest_text is <<>> for None, else
\* the one-element sequence of the length of the text.
NewClient ==
    [host |-> RootHost, port |-> RootPort,
     visited_selectors |-> {}, text_files |-> <<>>, binary_files |-> <<>>,
     directories |-> <<>>, invalid_refs |-> {}, external_servers |-> EmptyDict,
     smallest_text |-> <<>>, largest_text_size |-> 0,
     smallest_binary_size |-> inf, largest_binary_size |-> 0]

\* A call of crawl(selector) that has not run its first statement.
Frame(selector) == [selector |-> selector, at |-> "call", rest |-> <<>>]

\* The innermost call of crawl.
Top == stack[Len(stack)]

\* The stack after the innermost call returned.
Popped == SubSeq(stack, 1, Len(stack) - 1)

\* The stack after the for loop of the innermost call went to its next line.
Advanced == [stack EXCEPT ![Len(stack)].rest = Tail(@)]

\* log_request (lines 20-22, called at lines 27 and 87): a request for the
\* selector goes out.
Logged(selector) == Put(requests_sent, selector, Count(requests_sent, selector) + 1)

\* The requests after a call that ended in outcome: a failed connection
\* sent nothing.
RequestsAfter(selector, outcome) ==
    IF outcome.kind = "connect" THEN requests_sent ELSE Logged(selector)

\* __main__ (lines 137-139): the client is made and crawl() is called.
RecursiveInit ==
    /\ repertoire = 1
    /\ MainStart
    /\ ParserIdle
    /\ ClassifierIdle
    /\ TransportIdle
    /\ ClassIdle
    /\ site = <<>>
    /\ first = <<>>
    /\ client = NewClient
    /\ stack = <<Frame(RootSelector)>>
    /\ requests_sent = EmptyDict
    /\ draft_pc = "crawl"

\* A call of crawl is at its first statement.
AtCall == draft_pc = "crawl" /\ stack # <<>> /\ Top.at = "call"

\* The for loop of a call of crawl is at a line.
AtLine == draft_pc = "crawl" /\ stack # <<>> /\ Top.at = "loop" /\ Top.rest # <<>>

\* Lines 41-42: the selector was visited.
CrawlVisited ==
    /\ AtCall
    /\ Top.selector \in client.visited_selectors
    /\ stack' = Popped
    /\ UNCHANGED <<vars, not_recursive, client, requests_sent, draft_pc>>

\* Lines 43-46: send_request returns None (lines 36-38) or "".
CrawlNoResponse ==
    /\ AtCall
    /\ Top.selector \notin client.visited_selectors
    /\ client' = [client EXCEPT !.visited_selectors = @ \cup {Top.selector}]
    /\ \E outcome \in DraftOutcomes :
           /\ outcome.size = 0
           /\ requests_sent' = RequestsAfter(Top.selector, outcome)
    /\ stack' = Popped
    /\ UNCHANGED <<vars, not_recursive, draft_pc>>

\* Lines 43-47: send_request returns the text of a response, which is
\* stripped and split into lines.
CrawlResponse ==
    /\ AtCall
    /\ Top.selector \notin client.visited_selectors
    /\ client' = [client EXCEPT !.visited_selectors = @ \cup {Top.selector}]
    /\ requests_sent' = Logged(Top.selector)
    /\ \E menu \in DraftMenus :
           stack' = [stack EXCEPT ![Len(stack)] =
                        [selector |-> Top.selector, at |-> "loop",
                         rest |-> split(Strip(ServerText(menu)), <<"\n">>)]]
    /\ UNCHANGED <<vars, not_recursive, draft_pc>>

\* line[1:].split('\t') (line 52)
DraftParts(line) == split(Tail(line), <<"\t">>)

\* Lines 49-50: an empty line or one that starts with a period.
LineSkipped ==
    /\ AtLine
    /\ Head(Top.rest) = <<>> \/ Head(Head(Top.rest)) = "."
    /\ stack' = Advanced
    /\ UNCHANGED <<vars, not_recursive, client, requests_sent, draft_pc>>

\* The line of the for loop is one that lines 51-72 look at.
AtEntry == AtLine /\ Head(Top.rest) # <<>> /\ Head(Head(Top.rest)) # "."

\* Lines 53-55: fewer than four fields.
LineShort ==
    /\ AtEntry
    /\ Len(DraftParts(Head(Top.rest))) < 4
    /\ client' = [client EXCEPT !.invalid_refs = @ \cup {Head(Top.rest)}]
    /\ stack' = Advanced
    /\ UNCHANGED <<vars, not_recursive, requests_sent, draft_pc>>

\* The line of the for loop has four fields and the type item_type.
AtType(types) ==
    /\ AtEntry
    /\ Len(DraftParts(Head(Top.rest))) >= 4
    /\ Head(Head(Top.rest)) \in types

\* path, host and port of the line (line 56)
Path == DraftParts(Head(Top.rest))[2]
Host == DraftParts(Head(Top.rest))[3]
PortText == DraftParts(Head(Top.rest))[4]

\* check_external_server of the draft (lines 104-112): up is whether the
\* server takes the connection; a port that is no number is 'down'.
draft_check_external_server(servers, host, port, up) ==
    LET key == host \o <<":">> \o port
    IN  IF key \in DOMAIN servers THEN servers
        ELSE Put(servers, key, IF up /\ ~int(port).raised THEN "up" ELSE "down")

\* Lines 57-60: a directory of this server; crawl is called for it.
LineDirectory ==
    /\ AtType({"1"})
    /\ Host = client.host
    /\ ~int(PortText).raised
    /\ int(PortText).value = client.port
    /\ client' = [client EXCEPT !.directories = Append(@, Path)]
    /\ stack' = Append(Advanced, Frame(Path))
    /\ UNCHANGED <<vars, not_recursive, requests_sent, draft_pc>>

\* Lines 57-59: a directory of this host whose port is no number; int(port)
\* raises ValueError, which nothing catches.
LineDirectoryRaises ==
    /\ AtType({"1"})
    /\ Host = client.host
    /\ int(PortText).raised
    /\ client' = [client EXCEPT !.directories = Append(@, Path)]
    /\ draft_pc' = "raised"
    /\ UNCHANGED <<vars, not_recursive, stack, requests_sent>>

\* Lines 57-62: a directory of another server, which is probed.
LineExternal ==
    /\ AtType({"1"})
    /\ \/ Host # client.host
       \/ ~int(PortText).raised /\ int(PortText).value # client.port
    /\ \E up \in BOOLEAN :
           client' = [client EXCEPT
                         !.directories = Append(@, Path),
                         !.external_servers =
                             draft_check_external_server(@, Host, PortText, up)]
    /\ stack' = Advanced
    /\ UNCHANGED <<vars, not_recursive, requests_sent, draft_pc>>

\* handle_text (lines 74-82): outcome is a failure of send_request or the
\* length of the text it returned.
handle_text(c, selector, outcome) ==
    IF outcome.size = 0 THEN c
    ELSE [c EXCEPT
             !.text_files = Append(@, <<selector, outcome.size>>),
             !.smallest_text =
                 IF @ = <<>> \/ outcome.size < @[1] THEN <<outcome.size>> ELSE @,
             !.largest_text_size = IF outcome.size > @ THEN outcome.size ELSE @]

\* Lines 63-64: a text file; handle_text requests it.
LineText ==
    /\ AtType({"0"})
    /\ \E outcome \in DraftOutcomes :
           /\ client' = handle_text(client, Path, outcome)
           /\ requests_sent' = RequestsAfter(Path, outcome)
    /\ stack' = Advanced
    /\ UNCHANGED <<vars, not_recursive, draft_pc>>

\* handle_binary (lines 84-102): outcome is an exception or the number of
\* bytes read.
handle_binary(c, selector, outcome) ==
    IF outcome.kind \in DraftFailures
    THEN [c EXCEPT !.invalid_refs = @ \cup {selector}]
    ELSE [c EXCEPT
             !.binary_files = Append(@, <<selector, outcome.size>>),
             !.largest_binary_size = IF outcome.size > @ THEN outcome.size ELSE @,
             !.smallest_binary_size = IF outcome.size < @ THEN outcome.size ELSE @]

\* Lines 65-66: a binary file; handle_binary requests it.
LineBinary ==
    /\ AtType({"9"})
    /\ \E outcome \in DraftOutcomes :
           /\ client' = handle_binary(client, Path, outcome)
           /\ requests_sent' = RequestsAfter(Path, outcome)
    /\ stack' = Advanced
    /\ UNCHANGED <<vars, not_recursive, draft_pc>>

\* Lines 67-68: an info line.
LineInfo ==
    /\ AtType({"i"})
    /\ stack' = Advanced
    /\ UNCHANGED <<vars, not_recursive, client, requests_sent, draft_pc>>

\* Lines 69-72: an error entry or an entry of any other type.
LineError ==
    /\ AtEntry
    /\ Len(DraftParts(Head(Top.rest))) >= 4
    /\ Head(Head(Top.rest)) \notin {"1", "0", "9", "i"}
    /\ client' = [client EXCEPT !.invalid_refs = @ \cup {Head(Top.rest)}]
    /\ stack' = Advanced
    /\ UNCHANGED <<vars, not_recursive, requests_sent, draft_pc>>

\* The for loop of a call is over (line 48): the call returns.
CrawlReturn ==
    /\ draft_pc = "crawl"
    /\ stack # <<>>
    /\ Top.at = "loop"
    /\ Top.rest = <<>>
    /\ stack' = Popped
    /\ UNCHANGED <<vars, not_recursive, client, requests_sent, draft_pc>>

\* print_summary (lines 114-134, called at line 140): smallest_text[:500] of
\* line 125 raises TypeError when no text file was counted.
PrintSummary ==
    /\ draft_pc = "crawl"
    /\ stack = <<>>
    /\ draft_pc' = IF client.smallest_text = <<>> THEN "raised" ELSE "done"
    /\ UNCHANGED <<vars, not_recursive, client, stack, requests_sent>>

RecursiveNext ==
    \/ CrawlVisited
    \/ CrawlNoResponse
    \/ CrawlResponse
    \/ LineSkipped
    \/ LineShort
    \/ LineDirectory
    \/ LineDirectoryRaises
    \/ LineExternal
    \/ LineText
    \/ LineBinary
    \/ LineInfo
    \/ LineError
    \/ CrawlReturn
    \/ PrintSummary

\* The recursive draft run on its own.
RecursiveSpec == RecursiveInit /\ [][RecursiveNext]_<<vars, aside>>

\* ------------- gopher_client_03.py and gopher_client_04.py, the class drafts

\* The drafts that ClassSpec runs: gopher_client_03.py, gopher_client_04.py.
ClassDrafts == {3, 4}

\* DEFAULT_PORT (line 19 of both drafts)
DEFAULT_PORT == 70

\* The menus the server of the class drafts answers with: a directory and a
\* text file; a text file and a binary file; one selector as binary and as
\* text; an error entry, an info line and a line of three fields; a
\* directory of another host and one whose port is no number; a text file
\* with an empty port field and the ending period.
ClassMenus ==
    { <<DraftLine("1", <<"a">>, RootHost, <<"7", "0">>),
        DraftLine("0", <<"b">>, RootHost, <<"7", "0">>)>>,
      <<DraftLine("0", <<"b">>, RootHost, <<"7", "0">>),
        DraftLine("9", <<"c">>, RootHost, <<"7", "0">>)>>,
      <<DraftLine("5", <<"b">>, RootHost, <<"7", "0">>),
        DraftLine("0", <<"b">>, RootHost, <<"7", "0">>)>>,
      <<DraftLine("3", <<"b">>, RootHost, <<"7", "0">>),
        DraftLine("i", <<>>, RootHost, <<"7", "0">>),
        <<"1", "d", "\t", "a", "\t", "h">>>>,
      <<DraftLine("1", <<"a">>, OtherHost, <<"7", "0">>),
        DraftLine("1", <<"a">>, RootHost, <<"x">>)>>,
      <<DraftLine("0", <<"b">>, RootHost, <<>>), <<".">>>> }

\* The texts send_request returns for a file, as the code points of their
\* characters: two letters; a letter and NUL; U+00E9 and nine letters (one
\* character in ten is not printable); U+00E9 and two letters.
ClassContents ==
    { <<97, 98>>, <<97, 0>>,
      <<233, 97, 97, 97, 97, 97, 97, 97, 97, 97>>, <<233, 97, 97>> }

\* What ends a request before the selector is sent (lines 57-61 of draft 03,
\* 66-70 of draft 04): the connection is refused, it times out, or socket
\* and connect raise something else.
BeforeSending == {"refused", "connect_timeout", "unreachable"}

\* What ends a request after the selector was sent: recv times out or
\* raises something else (draft 03, line 74; draft 04, lines 100-110), or,
\* in draft 04, a limit is passed (lines 84-93).
WhileReceiving(d) ==
    IF d = 3 THEN {"recv_timeout", "reset"} ELSE {"reset", "limit"}

\* How the server answers a request of draft d: with a failure, or with one
\* of bodies.
Replies(d, bodies) ==
    { [kind |-> k, content |-> <<>>] : k \in BeforeSending \cup WhileReceiving(d) }
    \cup { [kind |-> "bytes", content |-> b] : b \in bodies \cup {<<>>} }

\* send_request of draft 03 (lines 53-95): a failure before line 64 leaves
\* timestamp unbound, and the print of the handler (lines 88, 91, 94) raises
\* UnboundLocalError; a failure after it returns None.
send_request_03(reply) ==
    CASE reply.kind \in BeforeSending ->
             [result |-> "raised", content |-> <<>>, problem |-> FALSE]
      [] reply.kind \in {"recv_timeout", "reset"} ->
             [result |-> "None", content |-> <<>>, problem |-> FALSE]
      [] OTHER ->
             [result |-> "text", content |-> reply.content, problem |-> FALSE]

\* send_request of draft 04 (lines 58-131): timestamp is bound before the
\* try (line 60); a failure of the connection returns None, an exception of
\* recv and a passed limit end the loop, and what was read (here: nothing)
\* is returned; all but the exception of recv are noted in
\* problematic_paths.
send_request_04(reply) ==
    CASE reply.kind \in BeforeSending ->
             [result |-> "None", content |-> <<>>, problem |-> TRUE]
      [] reply.kind = "limit" ->
             [result |-> "text", content |-> <<>>, problem |-> TRUE]
      [] reply.kind = "reset" ->
             [result |-> "text", content |-> <<>>, problem |-> FALSE]
      [] OTHER ->
             [result |-> "text", content |-> reply.content, problem |-> FALSE]

\* send_request of draft d.
send_request(d, reply) ==
    IF d = 3 THEN send_request_03(reply) ELSE send_request_04(reply)

\* `not content` (lines 192, 235, 257 of draft 03): None or "".
NoContent(sent_back) == sent_back.result = "None" \/ sent_back.content = <<>>

\* is_binary_content (draft 03 lines 170-183, draft 04 lines 214-227) of a
\* text that is not None, given as its code points.
is_binary_content(content) ==
    LET non_printable ==
            Cardinality({ i \in 1..Len(content) :
                            /\ ~(32 <= content[i] /\ content[i] <= 126)
                            /\ content[i] \notin {13, 10, 9} })
    IN  \/ \E i \in 1..Len(content) : content[i] = 0
        \/ /\ content # <<>>
           /\ non_printable * 10 > Len(content)

\* len(content.encode('utf-8')) (draft 03 lines 245 and 262)
RECURSIVE encoded_size(_)
encoded_size(content) ==
    IF content = <<>> THEN 0
    ELSE (IF Head(content) < 128 THEN 1
          ELSE IF Head(content) < 2048 THEN 2
          ELSE IF Head(content) < 65536 THEN 3 ELSE 4)
         + encoded_size(Tail(content))

\* GopherClient.__init__ (draft 03 lines 36-51, draft 04 lines 39-55);
\* problematic_paths is a field of draft 04 alone and stays empty in 03.
NewCrawler ==
    [host |-> RootHost, port |-> RootPort,
     visited_paths |-> {}, visited_servers |-> {}, directories |-> <<>>,
     text_files |-> <<>>, binary_files |-> <<>>, error_refs |-> <<>>,
     external_servers |-> EmptyDict, problematic_paths |-> <<>>,
     text_file_sizes |-> EmptyDict, binary_file_sizes |-> EmptyDict,
     downloaded_text |-> EmptyDict]

\* str.isdigit() on the characters the model uses.
isdigit(s) == s # <<>> /\ \A i \in 1..Len(s) : s[i] \in DOMAIN Digit

\* parse_gopher_line (draft 03 lines 128-157, draft 04 lines 163-193): <<>>
\* for None, else the one-element sequence of the item.
parse_gopher_line(d, line) ==
    IF line = <<>> \/ Head(line) = "." THEN <<>>
    ELSE LET split_parts == split(Tail(line), <<"\t">>)
             parts == split_parts
                      \o [i \in 1..(IF Len(split_parts) < 4
                                    THEN 4 - Len(split_parts) ELSE 0) |-> <<>>]
             numbered == IF d = 3 THEN Strip(parts[4]) # <<>>
                         ELSE Strip(parts[4]) # <<>> /\ isdigit(Strip(parts[4]))
         IN  IF numbered /\ int(parts[4]).raised THEN <<>>
             ELSE <<[type |-> Head(line), display |-> parts[1],
                     selector |-> parts[2], host |-> parts[3],
                     port |-> IF numbered THEN int(parts[4]).value
                              ELSE DEFAULT_PORT]>>

\* The crawler after send_request(path) got reply: draft 04 notes a path
\* that caused trouble.
Noted(c, d, path, reply) ==
    IF send_request(d, reply).problem
    THEN [c EXCEPT !.problematic_paths = Append(@, <<path, reply.kind>>)]
    ELSE c

\* process_binary_file (draft 03 lines 250-264, draft 04 lines 294-308):
\* what it makes of the crawler c when the server answers with reply.
process_binary_file(c, d, path, reply) ==
    IF path \in c.visited_paths THEN c
    ELSE LET seen == [Noted(c, d, path, reply) EXCEPT
                          !.visited_paths = @ \cup {path}]
             sent_back == send_request(d, reply)
         IN  IF NoContent(sent_back) THEN seen
             ELSE [seen EXCEPT
                      !.binary_files = Append(@, path),
                      !.binary_file_sizes =
                          Put(@, path, encoded_size(sent_back.content))]

\* process_text_file (draft 03 lines 228-248, draft 04 lines 272-292): the
\* call of process_binary_file of a text that looks binary finds the path
\* in visited_paths and returns (lines 252-253).
process_text_file(c, d, path, reply) ==
    IF path \in c.visited_paths THEN c
    ELSE LET seen == [Noted(c, d, path, reply) EXCEPT
                          !.visited_paths = @ \cup {path}]
             sent_back == send_request(d, reply)
         IN  IF NoContent(sent_back) THEN seen
             ELSE IF is_binary_content(sent_back.content)
             THEN process_binary_file(seen, d, path, reply)
             ELSE [seen EXCEPT
                      !.text_files = Append(@, path),
                      !.text_file_sizes =
                          Put(@, path, encoded_size(sent_back.content)),
                      !.downloaded_text = Put(@, path, sent_back.content)]

\* A call of process_directory(path) that has not run its first statement.
DirectoryCall(path) == [path |-> path, at |-> "call", rest |-> <<>>]

\* The innermost call of process_directory.
Innermost == calls[Len(calls)]

\* The calls after the innermost returned.
Returning == SubSeq(calls, 1, Len(calls) - 1)

\* The calls after the for loop of the innermost went to its next line.
NextLine == [calls EXCEPT ![Len(calls)].rest = Tail(@)]

\* An exception leaves send_request: in draft 03 nothing catches it
\* (lines 163-168, 338); in draft 04 crawl catches it (lines 204-207) and
\* goes on to the summary.
Abort(d) ==
    /\ class_pc' = IF d = 3 THEN "raised" ELSE "crawl"
    /\ calls' = <<>>

\* main (draft 03 lines 327-338): the client is made and crawl() called.
ClassInit ==
    /\ repertoire = 1
    /\ MainStart
    /\ ParserIdle
    /\ ClassifierIdle
    /\ TransportIdle
    /\ RecursiveIdle
    /\ site = <<>>
    /\ first = <<>>
    /\ draft \in ClassDrafts
    /\ crawler = NewCrawler
    /\ calls = <<DirectoryCall(RootSelector)>>
    /\ class_pc = "crawl"
    /\ last_reply = [path |-> RootSelector, kind |-> "none", result |-> "none"]
    /\ looked_binary = {}

\* The history of a request: the path, how the server answered and what
\* send_request made of it.
Replied(path, reply) ==
    last_reply' = [path |-> path, kind |-> reply.kind,
                   result |-> send_request(draft, reply).result]

\* A call of process_directory is at its first statement.
AtDirectoryCall == class_pc = "crawl" /\ calls # <<>> /\ Innermost.at = "call"

\* The for loop of a call of process_directory is at a line.
AtDirectoryLine ==
    class_pc = "crawl" /\ calls # <<>> /\ Innermost.at = "loop"
    /\ Innermost.rest # <<>>

\* Draft 03 lines 187-189: the path was visited.
DirectoryVisited ==
    /\ AtDirectoryCall
    /\ Innermost.path \in crawler.visited_paths
    /\ calls' = Returning
    /\ UNCHANGED <<vars, not_class, draft, crawler, class_pc, last_reply,
                   looked_binary>>

\* Draft 03 lines 191-207: the listing is requested; without content the
\* call returns, else the path is counted and the response split into lines.
DirectoryRequested ==
    /\ AtDirectoryCall
    /\ Innermost.path \notin crawler.visited_paths
    /\ \E reply \in Replies(draft, { ServerText(m) : m \in ClassMenus }) :
           LET sent_back == send_request(draft, reply)
               seen == [Noted(crawler, draft, Innermost.path, reply) EXCEPT
                            !.visited_paths = @ \cup {Innermost.path}]
           IN  /\ Replied(Innermost.path, reply)
               /\ IF sent_back.result = "raised"
                  THEN /\ crawler' = seen
                       /\ Abort(draft)
                  ELSE IF NoContent(sent_back)
                  THEN /\ crawler' = seen
                       /\ calls' = Returning
                       /\ UNCHANGED class_pc
                  ELSE /\ crawler' =
                              IF Innermost.path # <<>>
                              THEN [seen EXCEPT
                                       !.directories = Append(@, Innermost.path)]
                              ELSE seen
                       /\ calls' = [calls EXCEPT ![Len(calls)] =
                                       [path |-> Innermost.path, at |-> "loop",
                                        rest |-> split(sent_back.content,
                                                       <<"\r", "\n">>)]]
                       /\ UNCHANGED class_pc
    /\ UNCHANGED <<vars, not_class, draft, looked_binary>>

\* The item of the line the for loop is at.
ItemAt == parse_gopher_line(draft, Head(Innermost.rest))

\* Draft 03 lines 203-208: an empty line, the ending period, or a line that
\* parse_gopher_line gives None for.
DirectoryLineSkipped ==
    /\ AtDirectoryLine
    /\ ItemAt = <<>>
    /\ calls' = NextLine
    /\ UNCHANGED <<vars, not_class, draft, crawler, class_pc, last_reply,
                   looked_binary>>

\* The line is an item of this server (draft 03 line 211) of one of types.
AtItemOf(types) ==
    /\ AtDirectoryLine
    /\ ItemAt # <<>>
    /\ ItemAt[1].host = crawler.host
    /\ ItemAt[1].port = crawler.port
    /\ ItemAt[1].type \in types

\* Draft 03 lines 213-215: a directory, for which process_directory is
\* called.
DirectoryItem ==
    /\ AtItemOf({"1"})
    /\ calls' = Append(NextLine, DirectoryCall(ItemAt[1].selector))
    /\ UNCHANGED <<vars, not_class, draft, crawler, class_pc, last_reply,
                   looked_binary>>

\* A file of the item's selector is handed to process_text_file or
\* process_binary_file, which requests it unless the path was visited; reply
\* is the server's answer, processed the crawler as the call leaves it.
FileItem(reply, processed) ==
    LET path == ItemAt[1].selector
    IN  IF path \in crawler.visited_paths
        THEN /\ calls' = NextLine
             /\ UNCHANGED <<crawler, class_pc, last_reply>>
        ELSE /\ Replied(path, reply)
             /\ IF send_request(draft, reply).result = "raised"
                THEN /\ crawler' = [crawler EXCEPT
                                       !.visited_paths = @ \cup {path}]
                     /\ Abort(draft)
                ELSE /\ crawler' = processed
                     /\ calls' = NextLine
                     /\ UNCHANGED class_pc

\* process_text_file requested the path and is_binary_content said True of
\* what came back (draft 03 lines 234-240).
LooksBinary(path, reply) ==
    /\ path \notin crawler.visited_paths
    /\ ~NoContent(send_request(draft, reply))
    /\ is_binary_content(send_request(draft, reply).content)

\* Draft 03 lines 216-217: a text file.
TextItem ==
    /\ AtItemOf({"0"})
    /\ \E reply \in Replies(draft, ClassContents) :
           /\ FileItem(reply, process_text_file(crawler, draft,
                                                ItemAt[1].selector, reply))
           /\ looked_binary' =
                  IF LooksBinary(ItemAt[1].selector, reply)
                  THEN looked_binary \cup {ItemAt[1].selector}
                  ELSE looked_binary
    /\ UNCHANGED <<vars, not_class, draft>>

\* Draft 03 lines 218-219: a binary file or an archive.
BinaryItem ==
    /\ AtItemOf({"9", "5"})
    /\ \E reply \in Replies(draft, ClassContents) :
           FileItem(reply, process_binary_file(crawler, draft,
                                               ItemAt[1].selector, reply))
    /\ UNCHANGED <<vars, not_class, draft, looked_binary>>

\* Draft 03 lines 220-222: an error entry.
ErrorItem ==
    /\ AtItemOf({"3"})
    /\ crawler' =
           IF InList(ItemAt[1].selector, crawler.error_refs) THEN crawler
           ELSE [crawler EXCEPT !.error_refs = Append(@, ItemAt[1].selector)]
    /\ calls' = NextLine
    /\ UNCHANGED <<vars, not_class, draft, class_pc, last_reply, looked_binary>>

\* Draft 03 lines 211-222: an item of this server of any other type.
OtherItem ==
    /\ AtDirectoryLine
    /\ ItemAt # <<>>
    /\ ItemAt[1].host = crawler.host
    /\ ItemAt[1].port = crawler.port
    /\ ItemAt[1].type \notin {"1", "0", "9", "5", "3"}
    /\ calls' = NextLine
    /\ UNCHANGED <<vars, not_class, draft, crawler, class_pc, last_reply,
                   looked_binary>>

\* check_external_server of the class drafts (draft 03 lines 97-126): up is
\* whether the server takes the connection.
class_check_external_server(c, host, port, up) ==
    IF <<host, port>> \in c.visited_servers THEN c
    ELSE [c EXCEPT
             !.visited_servers = @ \cup {<<host, port>>},
             !.external_servers = Put(@, <<host, port>>, up)]

\* Draft 03 lines 223-226: an item of another server, which is probed
\* unless it is in external_servers.
ExternalItem ==
    /\ AtDirectoryLine
    /\ ItemAt # <<>>
    /\ ItemAt[1].host # crawler.host \/ ItemAt[1].port # crawler.port
    /\ \E up \in BOOLEAN :
           crawler' =
               IF <<ItemAt[1].host, ItemAt[1].port>>
                      \in DOMAIN crawler.external_servers
               THEN crawler
               ELSE class_check_external_server(
                        crawler, ItemAt[1].host, ItemAt[1].port, up)
    /\ calls' = NextLine
    /\ UNCHANGED <<vars, not_class, draft, class_pc, last_reply, looked_binary>>

\* The for loop of a call is over (draft 03 line 202): the call returns.
DirectoryReturn ==
    /\ class_pc = "crawl"
    /\ calls # <<>>
    /\ Innermost.at = "loop"
    /\ Innermost.rest = <<>>
    /\ calls' = Returning
    /\ UNCHANGED <<vars, not_class, draft, crawler, class_pc, last_reply,
                   looked_binary>>

\* print_summary (draft 03 lines 266-324, called at line 168).
ClassSummary ==
    /\ class_pc = "crawl"
    /\ calls = <<>>
    /\ class_pc' = "done"
    /\ UNCHANGED <<vars, not_class, draft, crawler, calls, last_reply,
                   looked_binary>>

ClassNext ==
    \/ DirectoryVisited
    \/ DirectoryRequested
    \/ DirectoryLineSkipped
    \/ DirectoryItem
    \/ TextItem
    \/ BinaryItem
    \/ ErrorItem
    \/ OtherItem
    \/ ExternalItem
    \/ DirectoryReturn
    \/ ClassSummary

\* A class draft run on its own.
ClassSpec == ClassInit /\ [][ClassNext]_<<vars, aside>>

\* ------------------------------------------------------------ the claims

\* C1: during one crawl send_gopher_request is called at most once for each
\* distinct selector string, whatever the server lists and however often.
C1_AtMostOneRequestPerSelector ==
    \A s \in DOMAIN request_count : request_count[s] <= 1

\* A crawl that popped some selector a second time: more pops than requests.
C1_Witness ==
    /\ pc = "done"
    /\ request_count # EmptyDict
    /\ processed_count > Cardinality(DOMAIN request_count)

\* C2: processed_count never exceeds max_items, and once it has reached
\* max_items no entry leaves the frontier.
C2_ProcessedCountCapped ==
    /\ [](processed_count <= max_items)
    /\ [][processed_count >= max_items
            => selectors_to_visit' = selectors_to_visit]_vars

\* The cap is reached with entries still waiting.
C2_Witness ==
    /\ processed_count = max_items
    /\ selectors_to_visit # <<>>
    /\ pc = "loop"

\* C3: the frontier holds at most max_queue_size entries at every point of the
\* crawl: before a pop, after a directory's entries were enqueued, at the exit.
C3_QueueNeverExceedsMax ==
    Len(selectors_to_visit) <= max_queue_size

\* C4: the crawl loop terminates for every server; it ends with an empty
\* frontier or after max_items pops, never more, and either way main goes on to
\* the statistics and returns normally.
C4_Terminates ==
    /\ <>(pc = "done")
    /\ [](pc = "done" =>
            /\ selectors_to_visit = <<>> \/ processed_count = max_items
            /\ processed_count <= max_items
            /\ main_outcome = "returned")

\* A crawl ended by the cap on a server whose menus keep listing entries.
C4_Witness ==
    /\ pc = "done"
    /\ processed_count = max_items
    /\ selectors_to_visit # <<>>
    /\ main_outcome = "returned"

\* A step in which a request was sent and returned b"".
FailedFetchStep ==
    /\ request_count' # request_count
    /\ request_result'[current'.selector] \in FailureKinds

\* What a failed fetch does besides noting how long the request took.
FailedFetchEffect ==
    /\ invalid_references' = invalid_references \cup {current'.selector}
    /\ UNCHANGED <<directories, text_files, binary_files, external_servers,
                   problematic_resources, text_file_contents, file_sizes>>
    /\ selectors_to_visit' = Tail(Truncated(selectors_to_visit))
    /\ pc' = "loop"
    /\ main_outcome' = "running"

\* C5 as stated: a failed fetch adds the popped selector to invalid_references
\* and records nothing else for it, and the loop goes on with the rest of the
\* frontier.
C5_FailedFetchRecordsOnlyInvalidReference ==
    [][FailedFetchStep => FailedFetchEffect /\ download_times' = download_times]_vars

\* C5 as amended: a failed fetch adds the popped selector to invalid_references,
\* records nothing else for it but the duration of its request in
\* download_times, and the loop goes on with the rest of the frontier.
C5_FailedFetchRecordsInvalidReferenceAndDuration ==
    [][FailedFetchStep =>
          /\ FailedFetchEffect
          /\ current'.selector \in DOMAIN download_times'
          /\ \A s \in DOMAIN download_times :
                 s # current'.selector => download_times'[s] = download_times[s]]_vars

\* The fetch of a selector other than the root has failed, and the loop is
\* still running with entries to process.
C5_Witness ==
    /\ pc = "loop"
    /\ LoopCondition
    /\ current.selector # RootSelector
    /\ current.selector \in invalid_references
    /\ current.selector \in DOMAIN request_result
    /\ request_result[current.selector] \in FailureKinds

\* Every request of the crawl so far returned b"".
AllFetchesFailed ==
    /\ request_result # EmptyDict
    /\ \A s \in DOMAIN request_result : request_result[s] \in FailureKinds

\* C6: a crawl all of whose fetches fail still completes, with no directory,
\* no text file, no binary file, and every dispatched selector an invalid
\* reference.
C6_AllFailedCrawlCompletes ==
    (pc = "done" /\ AllFetchesFailed) =>
        /\ main_outcome = "returned"
        /\ Len(directories) = 0
        /\ Len(clean_text_files) = 0
        /\ Len(clean_binary_files) = 0
        /\ invalid_references = DOMAIN request_count

\* A finished crawl whose every fetch failed.
C6_Witness ==
    /\ pc = "done"
    /\ AllFetchesFailed
    /\ invalid_references # {}

\* C7: when the request for the root selector cannot connect, main ends in
\* another way than with the ordinary summary of a completed crawl.
C7_RootConnectFailureIsTopLevel ==
    ( /\ pc = "done"
      /\ RootSelector \in DOMAIN request_result
      /\ request_result[RootSelector] = "connect_error" )
        => main_outcome # "returned"

\* (host, port) names the server the crawl started on: host names compare
\* without regard to case and surrounding blanks.
NamesRoot(host, port) ==
    LowerStr(Strip(host)) = LowerStr(Strip(RootHost)) /\ port = RootPort

\* C8: every connection of the crawl is to the root's server, so an entry whose
\* (host, port) differs from the connection's names another server; no such
\* entry is in the frontier, and no request goes to it, whatever its type.
C8_CrossServerNeverEnqueued ==
    /\ \A i \in 1..Len(selectors_to_visit) :
           NamesRoot(selectors_to_visit[i].host, selectors_to_visit[i].port)
    /\ NamesRoot(current.host, current.port)

\* A menu with an entry for another server has been processed and left
\* entries in the frontier.
C8_Witness ==
    /\ selectors_to_visit # <<>>
    /\ \E i \in 1..Len(menu_items) :
           /\ ~NamesRoot(menu_items[i].host, menu_items[i].port)
           /\ Len(menu_items[i].selector) <= MaxSelectorLen
           /\ menu_items[i].type \in {"1", "0"}
    /\ \E i \in 1..Len(menu_items) :
           NamesRoot(menu_items[i].host, menu_items[i].port)

\* The keys of the entries of the last menu that name another server.
CrossServerKeys(entries) ==
    { <<entries[i].host, entries[i].port>> :
          i \in { j \in 1..Len(entries) :
                      ~NamesRoot(entries[j].host, entries[j].port) } }

\* The entries of a menu whose selector is short enough to be looked at.
ShortEntries(entries) ==
    SelectSeq(entries, LAMBDA e : Len(e.selector) <= MaxSelectorLen)

\* C9 as stated: check_external_server is called exactly once for each key a
\* cross-server entry references.
C9_EveryCrossServerKeyProbedOnce ==
    \A k \in CrossServerKeys(menu_items) : Count(probe_count, k) = 1

\* C9 as amended: check_external_server is called exactly once for each key
\* that a cross-server entry with a selector of at most 255 characters
\* references, never for another key, and a value of external_servers, once
\* set, never changes.
C9_ShortCrossServerKeyProbedOnce ==
    /\ [](/\ \A k \in CrossServerKeys(ShortEntries(menu_items)) :
                 Count(probe_count, k) = 1
          /\ \A k \in DOMAIN probe_count : probe_count[k] = 1
          /\ DOMAIN probe_count = DOMAIN external_servers)
    /\ [][\A k \in DOMAIN external_servers :
              /\ k \in DOMAIN external_servers'
              /\ external_servers'[k] = external_servers[k]]_vars

\* A key referenced by two entries of one menu and probed once; the crawl has
\* since processed another menu.
C9_Witness ==
    /\ \E i, j \in 1..Len(menu_items) :
           /\ i # j
           /\ menu_items[i].host = menu_items[j].host
           /\ menu_items[i].port = menu_items[j].port
           /\ ~NamesRoot(menu_items[i].host, menu_items[i].port)
           /\ Count(probe_count, <<menu_items[i].host, menu_items[i].port>>) = 1
    /\ Cardinality(DOMAIN request_count) = 2
    /\ current.selector # RootSelector

\* C10: every entry of type '3' of a fetched directory has its selector in
\* invalid_references, whatever host and port it carries.
C10_ErrorEntryIsInvalidReference ==
    \A i \in 1..Len(menu_items) :
        menu_items[i].type = "3" => menu_items[i].selector \in invalid_references

\* A step of the crawl that processes a menu: a request is made and its
\* selector is a directory afterwards.
MenuStep ==
    /\ request_count' # request_count
    /\ InList(current'.selector, directories')

\* The frontier items the step appended.
Appended ==
    SubSeq(selectors_to_visit', Len(Tail(Truncated(selectors_to_visit))) + 1,
           Len(selectors_to_visit'))

\* C11: an entry of type 'i' is dropped.  Every probe, every new invalid
\* reference and every new frontier item of a menu step is due to an entry of
\* the menu that is not of type 'i'.
C11_InfoEntryHasNoEffect ==
    [][MenuStep =>
          /\ \A k \in DOMAIN probe_count' :
                 Count(probe_count', k) > Count(probe_count, k) =>
                     \E i \in 1..Len(menu_items') :
                         /\ menu_items'[i].type # "i"
                         /\ <<menu_items'[i].host, menu_items'[i].port>> = k
          /\ \A s \in invalid_references' \ invalid_references :
                 \E i \in 1..Len(menu_items') :
                     /\ menu_items'[i].type # "i"
                     /\ menu_items'[i].selector = s
          /\ \A j \in 1..Len(Appended) :
                 \E i \in 1..Len(menu_items') :
                     /\ menu_items'[i].type # "i"
                     /\ menu_items'[i].selector = Appended[j].selector]_vars

\* A step of the crawl that fetches a file.
FileStep ==
    /\ request_count' # request_count
    /\ request_result'[current'.selector] \in {"text_bytes", "binary_bytes"}

\* C12 as stated: a fetched file is in text_files exactly if is_text_file
\* calls its bytes text, and in binary_files exactly if it does not.
C12_CategoryDecidedByBytes ==
    \A s \in DOMAIN request_result :
        /\ request_result[s] = "text_bytes" =>
               InList(s, text_files) /\ ~InList(s, binary_files)
        /\ request_result[s] = "binary_bytes" =>
               InList(s, binary_files) /\ ~InList(s, text_files)

\* The types of the entries of the menu just processed that list selector s.
ListedAs(s) ==
    { menu_items'[i].type : i \in { j \in 1..Len(menu_items') :
                                        menu_items'[j].selector = s } }

\* C12 as amended: a menu puts a selector into text_files only for an entry
\* of type '0' and into binary_files only for an entry of another file type;
\* a selector leaves neither list; a fetched file that is in one of the lists
\* stays in that list alone, whatever its bytes; a fetched file that is in
\* neither list goes into the list that is_text_file calls for.
C12_CategoryDecidedByFirstListing ==
    /\ [][MenuStep =>
             /\ \A i \in 1..Len(text_files') :
                    ~InList(text_files'[i], text_files) =>
                        "0" \in ListedAs(text_files'[i])
             /\ \A i \in 1..Len(binary_files') :
                    ~InList(binary_files'[i], binary_files) =>
                        ListedAs(binary_files'[i]) \ {"0", "1", "3", "i"} # {}]_vars
    /\ [][/\ \A i \in 1..Len(text_files) : InList(text_files[i], text_files')
          /\ \A i \in 1..Len(binary_files) : InList(binary_files[i], binary_files')]_vars
    /\ [][FileStep =>
             LET s == current'.selector
                 is_text == request_result'[s] = "text_bytes"
             IN  IF InList(s, text_files)
                 THEN InList(s, text_files') /\ ~InList(s, binary_files')
                 ELSE IF InList(s, binary_files)
                 THEN InList(s, binary_files') /\ ~InList(s, text_files')
                 ELSE /\ InList(s, text_files') <=> is_text
                      /\ InList(s, binary_files') <=> ~is_text]_vars

\* A selector that a menu listed as text has been fetched, its bytes are
\* binary, and it is in text_files.
C12_Witness ==
    \E s \in DOMAIN request_result :
        /\ request_result[s] = "binary_bytes"
        /\ InList(s, text_files)
        /\ ~InList(s, binary_files)

\* A step of the crawl whose request returns bytes.
FetchedStep ==
    /\ request_count' # request_count
    /\ request_result'[current'.selector] \notin FailureKinds

\* C13 as stated: a fetched response is treated as a directory exactly if
\* parse_gopher_menu returns at least one entry for it.
C13_DirectoryIffEntries ==
    [][FetchedStep =>
          (InList(current'.selector, directories') <=> menu_items' # <<>>)]_vars

\* C13 as amended: a fetched response is treated as a directory exactly if
\* parse_gopher_menu returns at least one entry for it or the selector is
\* empty or ends in '/'; otherwise it is treated as a file and sized.
C13_DirectoryIffEntriesOrSelectorShape ==
    [][FetchedStep =>
          LET s == current'.selector
              shaped == s = <<>> \/ s[Len(s)] = "/"
          IN  /\ InList(s, directories') <=> (menu_items' # <<>> \/ shaped)
              /\ s \in DOMAIN file_sizes' <=> ~(menu_items' # <<>> \/ shaped)]_vars

\* The response for a selector ending in '/' that a menu listed as text
\* parsed into no entry, and the selector is a directory and has no size.
C13_Witness ==
    /\ current.selector = SlashSelector
    /\ request_result = (RootSelector :> "ok") @@ (SlashSelector :> "ok")
    /\ menu_items = <<>>
    /\ InList(SlashSelector, directories)
    /\ InList(SlashSelector, text_files)
    /\ SlashSelector \notin DOMAIN file_sizes

\* The lines of a menu that are entries, in their order.
EntryLines(menu) == SelectSeq(menu, LAMBDA l : l.kind = "entry")

C15_OneEntryPerLineFieldsUnchanged ==
    parse_pc = "returned" =>
        /\ Len(items) = Len(EntryLines(sent))
        /\ \A i \in 1..Len(items) :
               /\ encode(<<items[i].type>>) = EntryLines(sent)[i].type
               /\ encode(items[i].selector) = EntryLines(sent)[i].selector
               /\ encode(items[i].host) = EntryLines(sent)[i].host
               /\ items[i].port \in Int

RECURSIVE BeforeTerminator(_)
BeforeTerminator(menu) ==
    IF menu = <<>> \/ Head(menu).kind \in {"dot", "empty"} THEN <<>>
    ELSE <<Head(menu)>> \o BeforeTerminator(Tail(menu))

\* The type of each of the entries.
TypesOf(entries) == [i \in 1..Len(entries) |-> entries[i].type]

\* C17 as stated: a line '.' or an empty line ends processing: the entries
\* returned are those of the well-formed lines before the first such line.
C17_TerminatorEndsProcessing ==
    parse_pc = "returned" =>
        TypesOf(items) = [i \in 1..Len(EntryLines(BeforeTerminator(sent))) |->
                             chr(EntryLines(BeforeTerminator(sent))[i].type[1])]

\* C17 as amended: a line '.' or an empty line yields no entry and is
\* skipped: the entries returned are those of all the well-formed lines of
\* the response, before and after such a line, in their order.
C17_TerminatorIsSkipped ==
    parse_pc = "returned" =>
        TypesOf(items) = [i \in 1..Len(EntryLines(sent)) |->
                             chr(EntryLines(sent)[i].type[1])]

\* A menu whose first line is '.' and whose second line is an entry has
\* been parsed, and the entry returned.
C17_Witness ==
    /\ parse_pc = "returned"
    /\ Len(sent) = 2
    /\ sent[1].kind = "dot"
    /\ sent[2].kind = "entry"
    /\ Len(items) = 1

\* C18: is_text_file returns False for every payload whose sample is not
\* valid UTF-8 and that begins with a known signature, whatever the fraction
\* of printable characters.
C18_SignatureMeansBinary ==
    (/\ classify_pc = "returned"
     /\ ~IsUtf8(Sample(data))
     /\ HasSignature(data)) => answer = FALSE

\* C19: is_text_file returns False for an empty payload and for every payload
\* whose sample is not valid UTF-8, that begins with no known signature and
\* whose fraction of printable characters is at most 0.8.
C19_DefaultIsBinary ==
    classify_pc = "returned" =>
        /\ data = <<>> => answer = FALSE
        /\ (/\ data # <<>>
            /\ ~IsUtf8(Sample(data))
            /\ ~HasSignature(data)
            /\ 5 * printable_chars(Sample(data)) <= 4 * Len(Sample(data)))
               => answer = FALSE

\* A limit of the loop is exceeded: more than max_data_size bytes received,
\* or more than max_time seconds gone since the loop was entered.
LimitExceeded ==
    received > max_data_size \/ clock - start_time > max_time

\* C20: send_gopher_request always returns, whatever the peer sends and
\* however long it keeps sending, and the first loop check made with
\* received bytes over max_data_size or elapsed time over max_time leaves
\* the loop: no recv is started after it.
C20_TransportAlwaysReturns ==
    /\ <>(transport_pc = "returned")
    /\ [][(transport_pc = "check" /\ LimitExceeded) =>
              (transport_pc' = "returned" /\ left_by' \in {"size", "time"})]_<<vars, aside>>

\* send_gopher_request has left its loop by the size check, with more than
\* max_data_size bytes from a peer that was still sending, before max_time.
C20_Witness ==
    /\ transport_pc = "returned"
    /\ left_by = "size"
    /\ received > max_data_size
    /\ clock - start_time <= max_time

\* C29: when the peer has sent nothing for longer than the idle timeout and
\* has not closed the connection, send_gopher_request leaves its loop by the
\* idle check and returns the bytes read so far, no later than max_time after
\* it started.
C29_IdlePeerEndsReadBeforeMaxTime ==
    (/\ transport_pc = "returned"
     /\ left_by \in {"idle", "time"}
     /\ clock - last_byte_at > timeout)
        => (/\ left_by = "idle"
            /\ returned = received
            /\ clock - start_time <= max_time)

\* C22: no failure inside send_gopher_request reaches the caller as an
\* exception: a call that ends has returned, b"" after a failure (of the
\* socket's creation, the name lookup, the connection, the send or a
\* receive) and the bytes read otherwise.
C22_FailuresAreReturnedNotRaised ==
    /\ transport_pc # "raised"
    /\ transport_pc \in {"returned", "handled"} =>
           returned = IF left_by \in Failures THEN 0 ELSE received

\* A receive has failed after bytes were read, and b"" was returned.
C22_Witness ==
    /\ transport_pc = "returned"
    /\ left_by = "recv"
    /\ received > 0
    /\ returned = 0

\* C21: a response cut short by the size cap, the time cap or the idle
\* timeout is not recorded by main as an ordinary file: its selector gets no
\* entry in file_sizes that the size statistics would read, these leaving
\* out only what is flagged problematic.
C21_TruncatedResponseIsNoOrdinaryFile ==
    (/\ transport_pc = "handled"
     /\ left_by \in {"size", "time", "idle"})
        => \/ current.selector \notin DOMAIN file_sizes
           \/ current.selector \in problematic_resources

\* The four smallest/largest reports of the summary, each with the list of
\* its category.
Extremes ==
    { [report |-> summary[1].smallest_text, files |-> text_files],
      [report |-> summary[1].largest_text, files |-> text_files],
      [report |-> summary[1].smallest_binary, files |-> binary_files],
      [report |-> summary[1].largest_binary, files |-> binary_files] }

\* The files of a category list that take part in its size statistics: not
\* flagged problematic, and with a recorded size.
Sized(files) ==
    { f \in { files[i] : i \in 1..Len(files) } :
        f \notin problematic_resources /\ f \in DOMAIN file_sizes }

\* C23: no selector flagged problematic is reported as the smallest or
\* largest text file or binary file, and the summary still lists every
\* flagged selector in its problematic set.
C23_ProblematicNeverAnExtreme ==
    pc = "done" =>
        /\ \A e \in Extremes :
               \A i \in 1..Len(e.report) :
                   e.report[i].file[1] \notin problematic_resources
        /\ problematic_resources \subseteq summary[1].problematic

\* A text file was flagged problematic whose recorded size is above that of
\* the largest text file reported.
C23_Witness ==
    /\ pc = "done"
    /\ summary[1].largest_text # <<>>
    /\ \E f \in problematic_resources :
           /\ InList(f, text_files)
           /\ f \in DOMAIN file_sizes
           /\ file_sizes[f] > summary[1].largest_text[1].size
           /\ f \in summary[1].problematic

\* The place of a selector in a list that has it.
IndexIn(list, x) == CHOOSE i \in 1..Len(list) : list[i] = x

\* The files of a category that share the size reported for it.
TiedWith(e) ==
    { f \in Sized(e.files) : file_sizes[f] = e.report[1].size }

\* C24 as stated: among the non-problematic files of a category that share
\* the minimum (or maximum) size, the one reported is the one fetched first.
C24_TieGoesToEarliestFetched ==
    pc = "done" =>
        \A e \in Extremes :
            e.report # <<>> =>
                \A f \in TiedWith(e) :
                    IndexIn(fetched, e.report[1].file[1]) <= IndexIn(fetched, f)

\* C24: among the non-problematic files of a category that share the minimum
\* (or maximum) size, the one reported is the one that entered the category's
\* list first: on its first listing with a file type or, for a file never so
\* listed before, on its fetch.
C24_TieGoesToEarliestInCategoryList ==
    pc = "done" =>
        \A e \in Extremes :
            e.report # <<>> =>
                /\ e.report[1].file[1] \in TiedWith(e)
                /\ \A f \in TiedWith(e) :
                       IndexIn(e.files, e.report[1].file[1]) <= IndexIn(e.files, f)

\* Two text files of one size were fetched, the one fetched first having
\* entered text_files last, and that size is reported as the largest.
C24_Witness ==
    /\ pc = "done"
    /\ summary[1].largest_text # <<>>
    /\ \E f, g \in TiedWith([report |-> summary[1].largest_text,
                             files |-> text_files]) :
           /\ IndexIn(fetched, f) < IndexIn(fetched, g)
           /\ IndexIn(text_files, g) < IndexIn(text_files, f)

\* C25: when a category has no non-problematic file with a recorded size,
\* nothing is reported as its smallest or its largest file; and no report
\* carries a sentinel (infinity, 0) as its size or no file.
C25_NoResultForEmptyCategory ==
    pc = "done" =>
        \A e \in Extremes :
            /\ Sized(e.files) = {} => e.report = <<>>
            /\ \A i \in 1..Len(e.report) :
                   /\ e.report[i].file # <<>>
                   /\ e.report[i].size \notin {inf, 0}
                   /\ e.report[i].size = file_sizes[e.report[i].file[1]]

\* The crawl recorded text files, every one of them flagged problematic or
\* never fetched with success, and the summary reports no smallest and no
\* largest text file.
C25_Witness ==
    /\ pc = "done"
    /\ text_files # <<>>
    /\ Sized(text_files) = {}
    /\ \E f \in problematic_resources : InList(f, text_files)
    /\ summary[1].smallest_text = <<>>
    /\ summary[1].largest_text = <<>>

\* A step in which a request is sent.
RequestStep == request_count' # request_count

\* The selector requested in this step was discovered no deeper than any
\* selector requested before it.
ShallowerFirst ==
    \A b \in DOMAIN request_count :
        discovered[b] <= discovered[current'.selector]

\* C26 as stated: selectors are fetched in breadth-first order: a selector
\* first discovered at a smaller menu depth than another is fetched before it,
\* when both are fetched.
C26_FetchedInBreadthFirstOrder ==
    [][RequestStep => ShallowerFirst]_vars

\* C26: as long as the frontier has not been truncated, selectors are fetched
\* in breadth-first order: a selector first discovered at a smaller menu
\* depth than another is fetched before it, when both are fetched.
C26_BreadthFirstUntilTruncated ==
    [][(RequestStep /\ ~ever_truncated') => ShallowerFirst]_vars

\* Two selectors were on the frontier together, the deeper one listed by the
\* menu of a selector fetched in between, and the shallower one was fetched
\* first; nothing was cut from the frontier.
C26_Witness ==
    /\ ~ever_truncated
    /\ \E i, j \in 1..Len(fetched) :
           /\ i < j
           /\ discovered[fetched[i]] = 1
           /\ discovered[fetched[j]] = 2
           /\ \E k \in 1..(i - 1) : discovered[fetched[k]] = 1

\* A step that pops a selector already in visited_selectors.
SkipStep ==
    /\ processed_count' # processed_count
    /\ current'.selector \in visited_selectors

\* C27: popping a selector that is already visited sends no request, probes
\* no server and changes none of the collections; the frontier loses its
\* head and nothing else, and processed_count goes up by one.
C27_SkipRemovesOnlyTheHead ==
    [][SkipStep =>
          /\ UNCHANGED <<request_count, probe_count, visited_selectors,
                         directories, text_files, binary_files, file_sizes,
                         invalid_references, external_servers>>
          /\ selectors_to_visit' = Tail(selectors_to_visit)
          /\ processed_count' = processed_count + 1]_vars

\* C28: when the crawl has ended with an empty frontier, nothing was ever cut
\* from the frontier and fewer than max_items entries were popped, every
\* selector of at most 255 characters that a fetched menu listed on its own
\* server with a type other than 'i' and '3' was requested exactly once.
C28_EverythingListedIsFetchedOnce ==
    (/\ pc = "done"
     /\ selectors_to_visit = <<>>
     /\ ~ever_truncated
     /\ processed_count < max_items)
        => \A s \in listed : Count(request_count, s) = 1

\* A crawl ended on an empty, never truncated frontier below the cap, having
\* fetched two listed selectors, one of them listed twice.
C28_Witness ==
    /\ pc = "done"
    /\ selectors_to_visit = <<>>
    /\ ~ever_truncated
    /\ processed_count < max_items
    /\ Cardinality(listed \ {RootSelector}) >= 2
    /\ processed_count > Len(fetched)

\* The lower-case spellings of the keywords a problematic selector has.
Keywords ==
    { <<"f", "i", "r", "e", "h", "o", "s", "e">>, <<"t", "a", "r", "p", "i", "t">>,
      <<"g", "o", "d", "o", "t">> }

\* What makes the resource fetched for s problematic.
Problematic(s, size, seconds) ==
    \/ \E kw \in Keywords :
           \E i \in 1..Len(s) :
               /\ i + Len(kw) - 1 <= Len(s)
               /\ \A j \in 1..Len(kw) : Lower(s[i + j - 1]) = kw[j]
    \/ size > 1048576 /\ seconds > 15
    \/ seconds >= 25

\* C30: a resource fetched with success is flagged problematic exactly when
\* its selector has one of the keywords in any case, or its size is over
\* 1 MiB and its fetch took over 15 seconds, or its fetch took 25 seconds or
\* more; a selector is flagged in the step that fetches it and in no other,
\* and no flag is ever cleared.
C30_FlaggedExactlyWhenProblematic ==
    [][/\ FetchedStep =>
              (current'.selector \in problematic_resources'
                   <=> Problematic(current'.selector,
                                   response_size'[current'.selector],
                                   download_times'[current'.selector]))
       /\ problematic_resources \subseteq problematic_resources'
       /\ problematic_resources' # problematic_resources =>
              /\ FetchedStep
              /\ current'.selector \notin problematic_resources
              /\ problematic_resources' =
                     problematic_resources \cup {current'.selector}]_vars

\* The root menu was flagged for its size of over 1 MiB fetched in 16 seconds,
\* and the file with the keyword in its selector although it was small and
\* fast.
C30_Witness ==
    /\ RootSelector \in problematic_resources
    /\ response_size[RootSelector] > 1048576
    /\ download_times[RootSelector] = 16
    /\ KeywordSelector \in problematic_resources
    /\ response_size[KeywordSelector] = 100
    /\ download_times[KeywordSelector] = 1

\* C31: every selector with a content sample in text_file_contents is in
\* text_files and has a recorded size below 1 MiB, the size of the sample.
C31_ContentOnlyOfSmallTextFiles ==
    \A s \in DOMAIN text_file_contents :
        /\ InList(s, text_files)
        /\ s \in DOMAIN file_sizes
        /\ file_sizes[s] < 1048576
        /\ text_file_contents[s] = file_sizes[s]

\* A text file of exactly 1 MiB was fetched and no sample of it was kept.
C31_Witness ==
    /\ InList(KeywordSelector, text_files)
    /\ KeywordSelector \in DOMAIN file_sizes
    /\ file_sizes[KeywordSelector] = 1048576
    /\ request_result[KeywordSelector] = "text_bytes"
    /\ KeywordSelector \notin DOMAIN text_file_contents

\* The selectors of a list.
Members(list) == { list[i] : i \in 1..Len(list) }

\* C36: at the end of a crawl every selector in text_files or binary_files
\* was fetched with success as a file and has an entry in file_sizes; none
\* of them is in invalid_references for a failed fetch.
C36_EveryCountedFileWasFetched ==
    pc = "done" =>
        \A f \in Members(text_files) \cup Members(binary_files) :
            /\ f \in DOMAIN file_sizes
            /\ f \in DOMAIN request_result
            /\ request_result[f] \in {"text_bytes", "binary_bytes"}
            /\ f \notin invalid_references

\* C37: no selector is in both text_files and binary_files.
C37_TextAndBinaryDisjoint ==
    Members(text_files) \cap Members(binary_files) = {}

\* A selector that a menu listed as text (and, in this repertoire, as binary
\* too) was fetched, its bytes were binary, and it is in text_files alone.
C37_Witness ==
    /\ repertoire = 2
    /\ \E f \in Members(text_files) :
           /\ f \in DOMAIN request_result
           /\ request_result[f] = "binary_bytes"
           /\ f \notin Members(binary_files)

\* C38: no selector is both in directories and in text_files or
\* binary_files.
C38_DirectoriesAndFilesDisjoint ==
    Members(directories) \cap (Members(text_files) \cup Members(binary_files)) = {}

\* C39: the bytes send_gopher_request returns are never more than
\* max_data_size plus one receive buffer.
C39_ReturnedBytesBounded ==
    /\ received <= max_data_size + recv_size
    /\ returned <= max_data_size + recv_size

\* The call returned max_data_size plus a full receive buffer of bytes, the
\* last recv having started with max_data_size bytes read.
C39_Witness ==
    /\ transport_pc = "returned"
    /\ left_by = "size"
    /\ returned = max_data_size + recv_size

\* C33: in the recursive draft a request is sent at most once for each
\* distinct selector during one crawl, text and binary files that several
\* menus or several lines of one menu list included.
C33_DraftRequestsEachSelectorOnce ==
    \A s \in DOMAIN requests_sent : requests_sent[s] <= 1

\* C34: in gopher_client_03.py, when the connection for a selector is
\* refused or times out, send_request returns None and the crawl is not
\* aborted.
C34_RefusedConnectionReturnsNone ==
    (draft = 3 /\ last_reply.kind \in {"refused", "connect_timeout"})
        => (last_reply.result = "None" /\ class_pc # "raised")

\* C35: in the class drafts, every text entry of this server whose fetched
\* content looks binary is in binary_files and has a size in
\* binary_file_sizes.
C35_BinaryLookingTextIsCountedBinary ==
    \A path \in looked_binary :
        /\ InList(path, crawler.binary_files)
        /\ path \in DOMAIN crawler.binary_file_sizes

====
